---- MODULE Spec2Model ----
(***************************************************************************)
(* Interaction state, sulk ("ngambek") evaluation and the request gate of  *)
(* the Lumina bot (core/core.js, core/ai-response.js, data/memory.js,      *)
(* handler/commandHandlers.js).                                            *)
(*                                                                         *)
(* Every async function is cut at its awaits: one action per stretch of    *)
(* code that runs without yielding.  A call of memory.savePreference or    *)
(* memory.getPreference yields once inside (await getDbInstance()) and     *)
(* once more when the caller's await resumes, so each is two stretches.    *)
(*                                                                         *)
(* Calendar time is counted in clock units of 1/DayUnits day; a date       *)
(* string "YYYY-MM-DD" is the day number  t \div DayUnits.                 *)
(***************************************************************************)
EXTENDS Integers, Sequences, FiniteSets, Bags, TLC

---------------------------------------------------------------------------
(* Bounds of the model *)

DayUnits == 2
PastDays == 4
MaxTicks == 2
NumCallers == 2
MaxCalls == 2
MaxQuietCalls == 1
MaxChecks == 2
NumRefs == 4
TicksPerWindow == 2
MaxMsTicks == 2
MaxRequests == 5
CacheMax == 2
MaxMoodMessages == 1
MaxCacheCalls == 4
MaxStampedeCalls == 3
MaxHours == 2
MaxSleepCalls == 3
MaxMemTicks == 3
MaxAdds == 2
MaxMoodTicks == 2
MaxMoodCalls == 3
MaxMessages == 2
MaxLtmDays == 1
MaxCleanups == 2
MaxCycles == 2

(* Program constants *)

MIN_CHATS_PER_DAY_TO_END_NGAMBEK == 6
NGAMBEK_DURATION_DAYS == 2
END_NGAMBEK_INTERACTION_DAYS == 2
MOOD_TIMEOUT_DAYS == 2
RATE_LIMIT_WINDOW_MS == 20 * 1000
RATE_LIMIT_MAX_REQUESTS == 3
SLEEP_START_HOUR == 0
SLEEP_END_HOUR == 4
MAX_HISTORY_LENGTH == 100
FLUSH_THRESHOLD == MAX_HISTORY_LENGTH + 20
CLEANUP_INTERVAL == 7 * 24 * 60 * 60 * 1000
QUERY_CACHE_TTL == 5000
LTM_CLEANUP_BATCH_SIZE == 50

---------------------------------------------------------------------------
(* Values *)

NoTime == 0 - 1
(* queryCache.history.data: null, or an array of documents *)
NoData == {}
Data(docs) == {docs}
DocsOf(data) == CHOOSE docs \in data : TRUE
NoMessage == <<>>
NoRef == 0
StartTime == PastDays * DayUnits
Times == 0..(StartTime + MaxTicks)
Days == 0..((StartTime + MaxTicks) \div DayUnits)
Refs == 1..NumRefs
Callers == 1..NumCallers
NoCaller == 0

Moods == {"NORMAL", "HAPPY", "SAD", "ANGRY", "JEALOUS", "LAZY", "CALM", "LOVING"}

EmptyCounts == [d \in Days |-> 0]

(* now.toISOString().slice(0, 10) *)
DateOf(t) == t \div DayUnits

(* counts[dateStr] || 0 *)
CountOn(counts, d) == IF d \in Days THEN counts[d] ELSE 0

(* Math.ceil(Math.abs(now - lastInteractionDate) / MS_PER_DAY) *)
DiffDays(t, last) ==
    LET diffTime == IF t >= last THEN t - last ELSE last - t
    IN (diffTime + DayUnits - 1) \div DayUnits

(* checkDates.some in place of checkDates.every *)
HasSufficientInteraction_Any(counts, t) ==
    \E i \in 0..(END_NGAMBEK_INTERACTION_DAYS - 1) :
        CountOn(counts, DateOf(t) - i) >= MIN_CHATS_PER_DAY_TO_END_NGAMBEK

(* checkDates.every(d => (dailyChatCounts[d] || 0) >= MIN_CHATS...) *)
HasSufficientInteraction(counts, t) ==
    \A i \in 0..(END_NGAMBEK_INTERACTION_DAYS - 1) :
        CountOn(counts, DateOf(t) - i) >= MIN_CHATS_PER_DAY_TO_END_NGAMBEK

(* the clean-up loop without the delete *)
PruneOld_None(counts, t) == counts

(* the clean-up loop: delete every date with new Date(date) < twoDaysAgo *)
PruneOld(counts, t) ==
    [d \in Days |->
        IF d * DayUnits < t - (NGAMBEK_DURATION_DAYS + 1) * DayUnits
        THEN 0 ELSE counts[d]]

(* a check that ignores the configured value *)
isFeatureEnabled_Always(flags, name) == TRUE

(* isFeatureEnabled(name): !!featureFlagsConfig[name]; a name the config   *)
(* does not have reads as undefined, which is false                        *)
isFeatureEnabled(flags, name) ==
    IF name \in DOMAIN flags THEN flags[name] ELSE FALSE

---------------------------------------------------------------------------
VARIABLES
    now,              \* the wall clock, in clock units
    featureFlags,     \* featureFlagsConfig
    globalState,      \* lastInteractionTimestamp, isNgambekMode, dailyChatCounts
    preferences,      \* the "preferences" collection of the store
    heap,             \* the count-map objects, by reference
    currentMood,      \* commandHandlers.currentMood
    moodTimeoutId,    \* when the pending mood-reset timer fires, or NoTime
    timeouts,         \* the timers setTimeout scheduled, by the time they fire
    lastSet, setCalls,\* history: the mood of the last setMood call by a command
    repeats,          \* history: the calls in a row with the mood already current
    notifications,    \* messages handed to sendMessage since the last evaluation began
    interactionMutex, \* holder and FIFO queue of the async-mutex
    upc, ulocal,      \* updateInteractionStatus calls: position and locals
    kpc, klocal,      \* the checkNgambekStatus call: position and locals
    calls, checks,    \* how many calls were made
    begun,            \* history: per date, the calls that read the clock on it
    origin,           \* history: the shared state at start
    kBefore,          \* history: the state when the running evaluation began
    kRepeat,          \* history: nothing happened since the evaluation before
    dirty             \* history: something happened since the last evaluation began

interactionVars ==
    <<now, featureFlags, globalState, preferences, heap, currentMood,
      moodTimeoutId, timeouts, lastSet, setCalls, repeats, notifications,
      interactionMutex, upc, ulocal,
      kpc, klocal, calls, checks, begun, origin, kBefore, kRepeat, dirty>>

VARIABLES
    nowMs,             \* Date.now(), in milliseconds since the start
    jakartaHour,       \* timeHelper.getJakartaHour()
    userRequestCounts, \* globalState.userRequestCounts: requester -> stats
    messageCache,      \* globalState.messageCache: its entries, oldest first
    historyCount,      \* documents in the "history" collection
    rpc, rlocal,       \* generateAIResponse calls: position and locals
    requests,          \* how many calls were made
    passed,            \* history: per requester, the calls sent to inference
    personalityMode,   \* commandHandlers.personalityMode
    touched,           \* history: the cache keys by their last store or hit
    contexts, keys,    \* two request contexts and their cache keys
    romance            \* loveState.getRomanceStatus() at the two requests

requestVars == <<nowMs, jakartaHour, personalityMode, userRequestCounts,
                 messageCache, historyCount, rpc, rlocal, requests, passed,
                 touched>>
keyVars == <<contexts, keys, romance>>

VARIABLES
    history,           \* the "history" collection: a bag of <<timestamp, id>>
    queryCache,        \* queryCache.history: data and timestamp
    apc, alocal,       \* the addMessage call: position and the message
    added,             \* how many messages were inserted
    loaded,            \* history: what the last load returned
    recent,            \* history: the message of the last completed addMessage
    lastOp             \* history: the last operation on the store

memoryVars == <<history, queryCache, apc, alocal, added, loaded, recent, lastOp>>

VARIABLES
    booted,            \* initLuminabot has called setupCronJobs
    jobs               \* the jobs registered with schedule.scheduleJob

scheduleVars == <<booted, jobs>>

VARIABLES
    lpc, lmsg,         \* the message listener: position and the message
    lbase,             \* history: the calls made when the message arrived
    lreply,            \* history: the last reply and the calls made for it
    messages           \* how many messages arrived

listenerVars == <<lpc, lmsg, lbase, lreply, messages>>

VARIABLES
    ltm,               \* the "ltm" collection: a bag of <<priority, createdAt>>
    ltmClock,          \* new Date(), in seconds
    cpc,               \* cleanupOldLTMs: its position
    cnow,              \* cleanupOldLTMs: its now
    deletedCount,      \* cleanupOldLTMs: its deletedCount
    cleanupLog,        \* what the last cleanupOldLTMs call logged at its end
    cbefore,           \* history: the collection when the call began
    cleanups           \* how many cleanupOldLTMs calls began

ltmVars == <<ltm, ltmClock, cpc, cnow, deletedCount, cleanupLog, cbefore,
             cleanups>>
VARIABLES
    jpc,               \* the running job handler: its position
    jrun,              \* the job that runs, or ran last, and what came of it
    cycles             \* how many times a job fired

jobRunVars == <<jpc, jrun, cycles>>
gateVars == <<requestVars, keyVars, memoryVars, scheduleVars, listenerVars,
              ltmVars, jobRunVars>>

moodHistory == <<lastSet, setCalls, repeats>>

vars == <<interactionVars, gateVars>>


---------------------------------------------------------------------------
(* The state the two functions share, as one record, so that a stretch of  *)
(* code is a function from state to state.                                 *)

Shared ==
    [gs |-> globalState, prefs |-> preferences, heap |-> heap,
     mood |-> currentMood, timer |-> moodTimeoutId, timeouts |-> timeouts,
     out |-> notifications]

NoLocal == [today |-> 0, loaded |-> NoRef, ref |-> NoRef, ts |-> NoTime]
NoKLocal == [now |-> 0, ref |-> NoRef]

(* The count-map objects some variable or pending argument still refers to *)
LiveRefs(s, ul, kl) ==
    ({s.gs.dailyChatCounts, s.prefs.dailyChatCounts, kl.ref}
        \cup {ul[u].loaded : u \in Callers} \cup {ul[u].ref : u \in Callers})
    \ {NoRef}

(* a new object: {} *)
FreshRef(s, ul, kl) ==
    CHOOSE r \in Refs :
        /\ r \notin LiveRefs(s, ul, kl)
        /\ \A q \in Refs : q \notin LiveRefs(s, ul, kl) => r <= q

(* Objects nothing refers to are dropped (garbage) *)
Install(s, ul, kl) ==
    /\ globalState' = s.gs
    /\ preferences' = s.prefs
    /\ heap' = [r \in Refs |->
                  IF r \in LiveRefs(s, ul, kl) THEN s.heap[r] ELSE EmptyCounts]
    /\ currentMood' = s.mood
    /\ moodTimeoutId' = s.timer
    /\ timeouts' = s.timeouts
    /\ notifications' = s.out
    /\ ulocal' = ul
    /\ klocal' = kl

(* What an observer sees of the interaction state: the maps by content *)
Snapshot(s) ==
    [lastInteractionTimestamp |-> s.gs.lastInteractionTimestamp,
     isNgambekMode |-> s.gs.isNgambekMode,
     dailyChatCounts |-> s.heap[s.gs.dailyChatCounts],
     savedLast |-> s.prefs.lastInteractionTimestamp,
     savedNgambek |-> s.prefs.isNgambekMode,
     savedCounts |-> IF s.prefs.dailyChatCounts = NoRef THEN <<>>
                     ELSE <<s.heap[s.prefs.dailyChatCounts]>>,
     mood |-> s.mood,
     timer |-> s.timer]

---------------------------------------------------------------------------
(* commandHandlers.setMood(chatId, newMood), chatId the configured chat.    *)
(* moodTimeoutId is the time the pending reset timer fires at, or NoTime.  *)

(* clearTimeout(id): the timer with that handle is no longer pending; a   *)
(* handle of no pending timer clears nothing                               *)
ClearTimeout(pending, id) ==
    IF \E i \in 1..Len(pending) : pending[i] = id
    THEN LET i == CHOOSE j \in 1..Len(pending) : pending[j] = id
         IN SubSeq(pending, 1, i - 1) \o SubSeq(pending, i + 1, Len(pending))
    ELSE pending

(* setTimeout(callback, durationMs) at time t: its handle is the time it   *)
(* fires at                                                                *)
SetTimeout(pending, t) == Append(pending, t + MOOD_TIMEOUT_DAYS * DayUnits)

Sticky == {"NORMAL", "CALM"}

(* setMood without the currentMood !== newMood test *)
SetMood_Always(s, newMood, t) ==
    LET cleared == ClearTimeout(s.timeouts, s.timer)
    IN [s EXCEPT !.mood = newMood,
                 !.out = Append(@, "mood"),
                 !.timer = IF newMood \notin Sticky
                           THEN t + MOOD_TIMEOUT_DAYS * DayUnits ELSE NoTime,
                 !.timeouts = IF newMood \notin Sticky
                              THEN SetTimeout(cleared, t) ELSE cleared]

(* setMood without clearTimeout(moodTimeoutId) *)
SetMood_NoClear(s, newMood, t) ==
    [s EXCEPT !.mood = newMood,
              !.out = IF s.mood # newMood THEN Append(@, "mood") ELSE @,
              !.timer = IF newMood \notin Sticky
                        THEN t + MOOD_TIMEOUT_DAYS * DayUnits ELSE @,
              !.timeouts = IF newMood \notin Sticky
                           THEN SetTimeout(@, t) ELSE @]

(* setMood without the setTimeout *)
SetMood_NoTimer(s, newMood, t) ==
    [s EXCEPT !.mood = newMood,
              !.out = IF s.mood # newMood THEN Append(@, "mood") ELSE @,
              !.timer = NoTime,
              !.timeouts = ClearTimeout(s.timeouts, s.timer)]

(* setMood with clearTimeout inside the branch that schedules *)
SetMood_ClearLate(s, newMood, t) ==
    [s EXCEPT !.mood = newMood,
              !.out = IF s.mood # newMood THEN Append(@, "mood") ELSE @,
              !.timer = IF newMood \notin Sticky
                        THEN t + MOOD_TIMEOUT_DAYS * DayUnits ELSE @,
              !.timeouts = IF newMood \notin Sticky
                           THEN SetTimeout(ClearTimeout(@, s.timer), t) ELSE @]

SetMood(s, newMood, t) ==
    LET cleared == ClearTimeout(s.timeouts, s.timer)
    IN [s EXCEPT !.mood = newMood,
                 !.out = IF s.mood # newMood THEN Append(@, "mood") ELSE @,
                 !.timer = IF newMood \notin Sticky
                           THEN t + MOOD_TIMEOUT_DAYS * DayUnits ELSE NoTime,
                 !.timeouts = IF newMood \notin Sticky
                              THEN SetTimeout(cleared, t) ELSE cleared]

(* commandHandlers.getRandomMood(): any mood but CALM *)
RandomMoods == Moods \ {"CALM"}

---------------------------------------------------------------------------
(* async-mutex, as interactionMutex.runExclusive uses it: acquire takes    *)
(* the lock when it is free and queues the caller otherwise; release hands *)
(* the lock to the head of the queue.                                      *)

(* an acquire that does not wait for the holder *)
(* a release that keeps the lock *)
MutexRelease_Keep(m) == m

MutexAcquire_NoLock(m, u) == [m EXCEPT !.holder = u]

MutexAcquire(m, u) ==
    IF m.holder = NoCaller
    THEN [m EXCEPT !.holder = u]
    ELSE [m EXCEPT !.queue = Append(@, u)]

MutexRelease(m) ==
    IF m.queue = <<>>
    THEN [m EXCEPT !.holder = NoCaller]
    ELSE [holder |-> Head(m.queue), queue |-> Tail(m.queue)]

---------------------------------------------------------------------------
(* updateInteractionStatus, stretch by stretch.  l is the call's locals.   *)

(* now = new Date(); lastInteractionTimestamp = now; today; getPreference( *)
UpdBegin(s, t) ==
    [s |-> [s EXCEPT !.gs.lastInteractionTimestamp = t],
     l |-> [NoLocal EXCEPT !.today = DateOf(t)]]

(* getPreference: pref ? pref.value : undefined *)
UpdGetPreference(s, l) ==
    [s |-> s, l |-> [l EXCEPT !.loaded = s.prefs.dailyChatCounts]]

(* dailyChatCounts = loaded or {}; counts[today]++; savePreference(last...  *)
UpdIncrement(s, l, fresh) ==
    LET ref == IF l.loaded # NoRef THEN l.loaded ELSE fresh
        h0 == IF l.loaded # NoRef THEN s.heap
              ELSE [s.heap EXCEPT ![fresh] = EmptyCounts]
    IN [s |-> [s EXCEPT !.gs.dailyChatCounts = ref,
                        !.heap = [h0 EXCEPT ![ref][l.today] = @ + 1]],
        l |-> [l EXCEPT !.loaded = NoRef,
                        !.ts = s.gs.lastInteractionTimestamp]]

(* savePreference("lastInteractionTimestamp", value): the store write *)
UpdSaveLast(s, l) ==
    [s |-> [s EXCEPT !.prefs.lastInteractionTimestamp = l.ts],
     l |-> [l EXCEPT !.ts = NoTime]]

(* savePreference("dailyChatCounts", globalState.dailyChatCounts): the call *)
UpdCallSaveCounts(s, l) ==
    [s |-> s, l |-> [l EXCEPT !.ref = s.gs.dailyChatCounts]]

(* savePreference("dailyChatCounts", value): the store write *)
UpdSaveCounts(s, l) ==
    [s |-> [s EXCEPT !.prefs.dailyChatCounts = l.ref],
     l |-> [l EXCEPT !.ref = NoRef]]

(* One whole call with nothing in between *)
SeqUpdate(s, t) ==
    LET a == UpdBegin(s, t)
        b == UpdGetPreference(a.s, a.l)
        c == UpdIncrement(b.s, b.l,
                 FreshRef(b.s, [u \in Callers |-> NoLocal], NoKLocal))
        d == UpdSaveLast(c.s, c.l)
        e == UpdCallSaveCounts(d.s, d.l)
    IN UpdSaveCounts(e.s, e.l).s


---------------------------------------------------------------------------
(* checkNgambekStatus, stretch by stretch.  Each stretch runs to the next  *)
(* await and says where the call then stands (pc).  kl is the call's       *)
(* locals: now (the Date taken on entry) and the argument of a pending     *)
(* savePreference; t is the clock when the stretch runs; m is the mood     *)
(* getRandomMood() draws.                                                  *)

(* the clean-up loop over dailyChatCounts, then savePreference(... *)
CleanupSection(s, kl) ==
    [s |-> [s EXCEPT !.heap[s.gs.dailyChatCounts] = PruneOld(@, kl.now)],
     l |-> [kl EXCEPT !.ref = s.gs.dailyChatCounts],
     pc |-> "cleanSave"]

(* if (isNgambekMode) { ... if (hasSufficientInteraction) { ... *)
ExitSection(s, kl, t, m) ==
    IF /\ s.gs.isNgambekMode
       /\ HasSufficientInteraction(s.heap[s.gs.dailyChatCounts], kl.now)
    THEN [s |-> SetMood([s EXCEPT !.gs.isNgambekMode = FALSE], m, t),
          l |-> kl, pc |-> "exitSave1"]
    ELSE CleanupSection(s, kl)

(* the enter check without the !isNgambekMode test *)
EnterSection_NoGuard(s, kl, t, m) ==
    IF /\ s.gs.lastInteractionTimestamp # NoTime
       /\ DiffDays(kl.now, s.gs.lastInteractionTimestamp) >= NGAMBEK_DURATION_DAYS
    THEN [s |-> SetMood([s EXCEPT !.gs.isNgambekMode = TRUE], "JEALOUS", t),
          l |-> kl, pc |-> "enterSave"]
    ELSE ExitSection(s, kl, t, m)

(* if (!isNgambekMode && lastInteractionDate) { ... if (diffDays >= ... *)
EnterSection(s, kl, t, m) ==
    IF /\ ~s.gs.isNgambekMode
       /\ s.gs.lastInteractionTimestamp # NoTime
       /\ DiffDays(kl.now, s.gs.lastInteractionTimestamp) >= NGAMBEK_DURATION_DAYS
    THEN [s |-> SetMood([s EXCEPT !.gs.isNgambekMode = TRUE], "JEALOUS", t),
          l |-> kl, pc |-> "enterSave"]
    ELSE ExitSection(s, kl, t, m)

(* entry: the feature flag, then now = new Date() and the enter check *)
ChkBegin(s, flags, t, m) ==
    IF ~isFeatureEnabled(flags, "ENABLE_NGAMBEK_MODE")
    THEN IF s.gs.isNgambekMode
         THEN [s |-> [s EXCEPT !.gs.isNgambekMode = FALSE],
               l |-> NoKLocal, pc |-> "offSave"]
         ELSE [s |-> s, l |-> NoKLocal, pc |-> "returned"]
    ELSE EnterSection(s, [NoKLocal EXCEPT !.now = t], t, m)

(* savePreference("isNgambekMode", value): the store write *)
ChkSaveNgambek(s, value) == [s EXCEPT !.prefs.isNgambekMode = value]

(* after the enter save: the sulk notification, then the exit check *)
ChkEnterSaved(s, kl, t, m) ==
    ExitSection([s EXCEPT !.out = Append(@, "ngambek")], kl, t, m)

(* the exit branch without dailyChatCounts = {} *)
ChkResetCounts_Keep(s, kl, fresh) ==
    [s |-> s, l |-> [kl EXCEPT !.ref = s.gs.dailyChatCounts], pc |-> "exitSave2"]

(* after the exit save: dailyChatCounts = {}; savePreference(... *)
ChkResetCounts(s, kl, fresh) ==
    [s |-> [s EXCEPT !.gs.dailyChatCounts = fresh,
                     !.heap[fresh] = EmptyCounts],
     l |-> [kl EXCEPT !.ref = fresh],
     pc |-> "exitSave2"]

(* savePreference("dailyChatCounts", value): the store write *)
ChkSaveCounts(s, kl) == [s EXCEPT !.prefs.dailyChatCounts = kl.ref]

(* after the reset save: the exit notification, then the clean-up *)
ChkExitSaved(s, kl) ==
    CleanupSection([s EXCEPT !.out = Append(@, "back")], kl)

---------------------------------------------------------------------------
(* updateInteractionStatus: the actions of caller u *)

UFrame ==
    UNCHANGED <<now, featureFlags, kpc, checks, origin, kBefore, kRepeat,
                moodHistory, gateVars>>

UStep(u, to, r) ==
    /\ Install(r.s, [ulocal EXCEPT ![u] = r.l], klocal)
    /\ upc' = [upc EXCEPT ![u] = to]
    /\ dirty' = TRUE
    /\ UNCHANGED <<interactionMutex, calls>>
    /\ UFrame

(* interactionMutex.runExclusive(...): take the lock or queue up *)
U_Call(u) ==
    /\ upc[u] = "idle"
    /\ calls < MaxCalls
    /\ calls' = calls + 1
    /\ interactionMutex' = MutexAcquire(interactionMutex, u)
    /\ upc' = [upc EXCEPT ![u] =
                  IF interactionMutex'.holder = u THEN "enter" ELSE "waiting"]
    /\ dirty' = TRUE
    /\ UNCHANGED <<globalState, preferences, heap, currentMood, moodTimeoutId,
                   timeouts, notifications, ulocal, klocal, begun>>
    /\ UFrame

U_Enter(u) ==
    /\ upc[u] = "enter"
    /\ UStep(u, "getPref", UpdBegin(Shared, now))
    /\ begun' = [begun EXCEPT ![DateOf(now)] = @ + 1]

U_GetPreference(u) ==
    /\ upc[u] = "getPref"
    /\ UStep(u, "gotPref", UpdGetPreference(Shared, ulocal[u]))
    /\ UNCHANGED begun

U_Increment(u) ==
    /\ upc[u] = "gotPref"
    /\ UStep(u, "saveLast",
             UpdIncrement(Shared, ulocal[u], FreshRef(Shared, ulocal, klocal)))
    /\ UNCHANGED begun

U_SaveLast(u) ==
    /\ upc[u] = "saveLast"
    /\ UStep(u, "savedLast", UpdSaveLast(Shared, ulocal[u]))
    /\ UNCHANGED begun

U_CallSaveCounts(u) ==
    /\ upc[u] = "savedLast"
    /\ UStep(u, "saveCounts", UpdCallSaveCounts(Shared, ulocal[u]))
    /\ UNCHANGED begun

U_SaveCounts(u) ==
    /\ upc[u] = "saveCounts"
    /\ UStep(u, "savedCounts", UpdSaveCounts(Shared, ulocal[u]))
    /\ UNCHANGED begun

(* logger.info(...); the callback returns and runExclusive releases *)
U_Finish(u) ==
    /\ upc[u] = "savedCounts"
    /\ interactionMutex' = MutexRelease(interactionMutex)
    /\ upc' = [v \in Callers |->
                 IF v = u THEN "idle"
                 ELSE IF v = interactionMutex'.holder THEN "enter"
                 ELSE upc[v]]
    /\ Install(Shared, [ulocal EXCEPT ![u] = NoLocal], klocal)
    /\ dirty' = TRUE
    /\ UNCHANGED <<calls, begun>>
    /\ UFrame

Update(u) ==
    \/ U_Enter(u)
    \/ U_GetPreference(u)
    \/ U_Increment(u)
    \/ U_SaveLast(u)
    \/ U_CallSaveCounts(u)
    \/ U_SaveCounts(u)
    \/ U_Finish(u)

(* Time passes, up to the time last *)
ClockTick(last) ==
    /\ now < last
    /\ now' = now + 1
    /\ dirty' = TRUE
    /\ UNCHANGED <<featureFlags, globalState, preferences, heap, currentMood,
                   moodTimeoutId, timeouts, notifications, interactionMutex,
                   upc, ulocal, kpc, klocal, calls, checks, begun, origin,
                   kBefore, kRepeat, moodHistory, gateVars>>

Tick == ClockTick(StartTime + MaxTicks)

---------------------------------------------------------------------------
(* checkNgambekStatus: the actions of the evaluation *)

KFrame ==
    UNCHANGED <<now, featureFlags, interactionMutex, upc, calls, begun, origin,
                moodHistory, gateVars>>

KStep(r) ==
    /\ Install(r.s, ulocal, r.l)
    /\ kpc' = r.pc
    /\ UNCHANGED <<checks, kBefore, kRepeat, dirty>>
    /\ KFrame

K_Call ==
    /\ kpc = "idle"
    /\ checks < MaxChecks
    /\ \E m \in RandomMoods :
         LET r == ChkBegin([Shared EXCEPT !.out = <<>>], featureFlags, now, m)
         IN Install(r.s, ulocal, r.l) /\ kpc' = r.pc
    /\ checks' = checks + 1
    /\ kBefore' = [state |-> Snapshot(Shared), now |-> now]
    /\ kRepeat' = (checks > 0 /\ ~dirty)
    /\ dirty' = FALSE
    /\ KFrame

K_EnterSave ==
    /\ kpc = "enterSave"
    /\ KStep([s |-> ChkSaveNgambek(Shared, TRUE), l |-> klocal,
              pc |-> "enterSaved"])

K_EnterSaved ==
    /\ kpc = "enterSaved"
    /\ \E m \in RandomMoods : KStep(ChkEnterSaved(Shared, klocal, now, m))

K_ExitSave ==
    /\ kpc = "exitSave1"
    /\ KStep([s |-> ChkSaveNgambek(Shared, FALSE), l |-> klocal,
              pc |-> "exitSaved1"])

K_ResetCounts ==
    /\ kpc = "exitSaved1"
    /\ KStep(ChkResetCounts(Shared, klocal, FreshRef(Shared, ulocal, klocal)))

K_ResetSave ==
    /\ kpc = "exitSave2"
    /\ KStep([s |-> ChkSaveCounts(Shared, klocal),
              l |-> [klocal EXCEPT !.ref = NoRef], pc |-> "exitSaved2"])

K_ExitSaved ==
    /\ kpc = "exitSaved2"
    /\ KStep(ChkExitSaved(Shared, klocal))

K_CleanSave ==
    /\ kpc = "cleanSave"
    /\ KStep([s |-> ChkSaveCounts(Shared, klocal),
              l |-> [klocal EXCEPT !.ref = NoRef], pc |-> "cleanSaved"])

K_CleanSaved ==
    /\ kpc = "cleanSaved"
    /\ KStep([s |-> Shared, l |-> klocal, pc |-> "returned"])

K_OffSave ==
    /\ kpc = "offSave"
    /\ KStep([s |-> ChkSaveNgambek(Shared, FALSE), l |-> klocal,
              pc |-> "offSaved"])

K_OffSaved ==
    /\ kpc = "offSaved"
    /\ KStep([s |-> Shared, l |-> klocal, pc |-> "returned"])

(* the caller's await resumes *)
K_Resume ==
    /\ kpc = "returned"
    /\ KStep([s |-> Shared, l |-> NoKLocal, pc |-> "idle"])

Check ==
    \/ K_EnterSave
    \/ K_EnterSaved
    \/ K_ExitSave
    \/ K_ResetCounts
    \/ K_ResetSave
    \/ K_ExitSaved
    \/ K_CleanSave
    \/ K_CleanSaved
    \/ K_OffSave
    \/ K_OffSaved
    \/ K_Resume

(* the mood-reset timer fires: currentMood = Mood.NORMAL *)
MoodReset ==
    /\ \E i \in 1..Len(timeouts) :
          /\ now >= timeouts[i]
          /\ currentMood' = "NORMAL"
          /\ timeouts' = SubSeq(timeouts, 1, i - 1)
                            \o SubSeq(timeouts, i + 1, Len(timeouts))
          /\ moodTimeoutId' = IF moodTimeoutId = timeouts[i] THEN NoTime
                              ELSE moodTimeoutId
    /\ dirty' = TRUE
    /\ UNCHANGED <<now, featureFlags, globalState, preferences, heap,
                   notifications, interactionMutex, upc, ulocal, kpc, klocal,
                   calls, checks, begun, origin, kBefore, kRepeat, moodHistory,
                   gateVars>>

---------------------------------------------------------------------------
(* One whole evaluation with nothing in between *)

NoULocals == [u \in Callers |-> NoLocal]

SeqClean(r) == ChkSaveCounts(r.s, r.l)

SeqExit(r) ==
    LET s1 == ChkSaveNgambek(r.s, FALSE)
        r2 == ChkResetCounts(s1, r.l, FreshRef(s1, NoULocals, r.l))
        s3 == ChkSaveCounts(r2.s, r2.l)
    IN SeqClean(ChkExitSaved(s3, [r2.l EXCEPT !.ref = NoRef]))

SeqTail(r) == IF r.pc = "exitSave1" THEN SeqExit(r) ELSE SeqClean(r)

SeqCheck(s, flags, t, m) ==
    LET r == ChkBegin([s EXCEPT !.out = <<>>], flags, t, m)
    IN CASE r.pc = "returned" -> r.s
         [] r.pc = "offSave" -> ChkSaveNgambek(r.s, FALSE)
         [] r.pc = "enterSave" ->
               SeqTail(ChkEnterSaved(ChkSaveNgambek(r.s, TRUE), r.l, t, m))
         [] OTHER -> SeqTail(r)

---------------------------------------------------------------------------
(* generateAIResponse(prompt, requestChatId, ...): the gate in front of    *)
(* the inference call.  A call is cut at its awaits: generateLuminaPrompt  *)
(* (history, weather and LTM reads), client.chat.completions.create, and   *)
(* memory.addMessage.                                                      *)

TickMs == RATE_LIMIT_WINDOW_MS \div TicksPerWindow
Requesters == {"u1", "u2"}
Prompts == {"p1", "p2"}
Slots == {1, 2}
Outcomes == {"content", "blank", "empty", "throw"}
Responses == {"a1", "a2"}
Personalities == {"TSUNDERE", "DEREDERE"}

(* null, and a string, as the values of messageContext.topic and of        *)
(* imageDescription                                                        *)
NoText == <<>>
Text(t) == <<t>>

NoStats == [count |-> 0, lastCalled |-> NoTime]
NoValue == [text |-> "none", mood |-> "NORMAL", personality |-> "TSUNDERE"]
NoRLocal == [chatId |-> "u1", prompt |-> "p1", now |-> 0, mood |-> "NORMAL",
             personality |-> "TSUNDERE", cacheKey |-> <<>>, value |-> NoValue,
             outcome |-> "none", reply |-> "none", logged |-> "none",
             reported |-> FALSE, charged |-> 0]

(* currentHour >= SLEEP_START_HOUR && currentHour < SLEEP_END_HOUR *)
Asleep_UpToEnd(hour) == hour >= SLEEP_START_HOUR /\ hour <= SLEEP_END_HOUR

Asleep(hour) == hour >= SLEEP_START_HOUR /\ hour < SLEEP_END_HOUR

(* x || d, for x null or a string: null and "" are falsy *)
OrElse(x, d) == IF x = NoText \/ x = Text("") THEN d ELSE x[1]

(* JSON.stringify({prompt, topic, personality, mood, deeptalkMode,         *)
(* ngambekMode, imageContext}): the serialisation of the seven values in   *)
(* this order tells any two tuples of values apart.                        *)
CacheKey_NoMood(ctx) ==
    <<ctx.prompt, OrElse(ctx.topic, "no_topic"), ctx.deeptalkMode,
      ctx.ngambekMode, OrElse(ctx.imageContext, "no_image")>>

CacheKey(ctx) ==
    <<ctx.prompt, OrElse(ctx.topic, "no_topic"), ctx.personality, ctx.mood,
      ctx.deeptalkMode, ctx.ngambekMode, OrElse(ctx.imageContext, "no_image")>>

(* the context of a call to generateAIResponse(prompt, chatId,             *)
(* messageContext, ...) with no topic and no image, deep talk off          *)
(* the personality section of the system prompt: the personality and the   *)
(* first of sulk, deep talk and romance that is on, lines 134-170          *)
PersonalitySection(ctx, isRomanceMode) ==
    <<ctx.personality,
      IF ctx.ngambekMode THEN "sulking"
      ELSE IF ctx.deeptalkMode THEN "deeptalk"
      ELSE IF isRomanceMode THEN "romance"
      ELSE "default">>

CallContext(l, ngambekMode) ==
    [prompt |-> l.prompt, topic |-> NoText, personality |-> l.personality,
     mood |-> l.mood, deeptalkMode |-> FALSE, ngambekMode |-> ngambekMode,
     imageContext |-> NoText]

(* globalState.messageCache.has(cacheKey) *)
CacheHas_Never(cache, key) == FALSE

CacheHas(cache, key) == \E i \in 1..Len(cache) : cache[i].key = key

(* globalState.messageCache.get(cacheKey) *)
CacheGet_First(cache, key) == cache[1].value

CacheGet(cache, key) ==
    cache[CHOOSE i \in 1..Len(cache) : cache[i].key = key].value

(* utils/cacheHelper.manageCache(cache, key, value): the key becomes the   *)
(* most recent entry, with this value, and the oldest entry goes once the  *)
(* capacity is exceeded.                                                   *)
ManageCache(cache, key, value) ==
    LET rest == SelectSeq(cache, LAMBDA e : e.key # key)
        put == Append(rest, [key |-> key, value |-> value])
    IN IF Len(put) > CacheMax THEN Tail(put) ELSE put

(* the hit path: get, then manageCache with the value found *)
CacheHit_NoTouch(cache, key) == cache

CacheHit(cache, key) == ManageCache(cache, key, CacheGet(cache, key))

(* the rate limit: userStats of the requester and now.getTime() *)
RateLimit_Decay(stats, t) ==
    IF stats # NoStats
    THEN IF t - stats.lastCalled < RATE_LIMIT_WINDOW_MS
            /\ stats.count >= RATE_LIMIT_MAX_REQUESTS
         THEN [accept |-> FALSE, stats |-> stats]
         ELSE IF t - stats.lastCalled >= RATE_LIMIT_WINDOW_MS
         THEN [accept |-> TRUE, stats |-> [count |-> stats.count - 1,
                                           lastCalled |-> t]]
         ELSE [accept |-> TRUE,
               stats |-> [count |-> stats.count + 1, lastCalled |-> t]]
    ELSE [accept |-> TRUE, stats |-> [count |-> 1, lastCalled |-> t]]

RateLimit_Touch(stats, t) ==
    IF stats # NoStats
    THEN IF t - stats.lastCalled < RATE_LIMIT_WINDOW_MS
            /\ stats.count >= RATE_LIMIT_MAX_REQUESTS
         THEN [accept |-> FALSE, stats |-> [stats EXCEPT !.lastCalled = t]]
         ELSE IF t - stats.lastCalled >= RATE_LIMIT_WINDOW_MS
         THEN [accept |-> TRUE, stats |-> [count |-> 1, lastCalled |-> t]]
         ELSE [accept |-> TRUE,
               stats |-> [count |-> stats.count + 1, lastCalled |-> t]]
    ELSE [accept |-> TRUE, stats |-> [count |-> 1, lastCalled |-> t]]

RateLimit(stats, t) ==
    IF stats # NoStats
    THEN IF t - stats.lastCalled < RATE_LIMIT_WINDOW_MS
            /\ stats.count >= RATE_LIMIT_MAX_REQUESTS
         THEN [accept |-> FALSE, stats |-> stats]
         ELSE IF t - stats.lastCalled >= RATE_LIMIT_WINDOW_MS
         THEN [accept |-> TRUE, stats |-> [count |-> 1, lastCalled |-> t]]
         ELSE [accept |-> TRUE,
               stats |-> [count |-> stats.count + 1, lastCalled |-> t]]
    ELSE [accept |-> TRUE, stats |-> [count |-> 1, lastCalled |-> t]]

(* response?.choices?.[0]?.message?.content is truthy *)
HasContent_Any(o) == TRUE

HasContent(o) == o \in {"content", "blank"}

(* content.trim() of a response that has content: the text, or "" when the *)
(* content is white space only                                             *)
Trimmed(o, t) == IF o = "blank" THEN "" ELSE t

(* memory.addMessage and its flush(): a message without content is turned  *)
(* away; insert, then trim past the threshold                              *)
AddMessage(count, content) ==
    IF content = "" THEN count
    ELSE IF count + 1 > FLUSH_THRESHOLD THEN MAX_HISTORY_LENGTH
    ELSE count + 1

(* history: the key is the one touched last, by a hit or by a store *)
Touch(log, key, hit) ==
    Append(SelectSeq(log, LAMBDA e : e.key # key), [key |-> key, hit |-> hit])

RFrame ==
    UNCHANGED <<interactionVars, jakartaHour, keyVars, memoryVars, scheduleVars,
                   listenerVars, ltmVars, jobRunVars>>

(* entry: now = new Date(), the hour, the mood, the personality; the sleep *)
(* reply or the await of generateLuminaPrompt                              *)
R_Call(r, c, p) ==
    /\ rpc[r] = "idle"
    /\ requests < MaxRequests
    /\ requests' = requests + 1
    /\ LET l == [NoRLocal EXCEPT !.chatId = c, !.prompt = p, !.now = nowMs,
                                   !.mood = currentMood,
                                   !.personality = personalityMode]
         IN IF Asleep(jakartaHour)
            THEN /\ rlocal' = [rlocal EXCEPT ![r] = [l EXCEPT !.reply = "sleep"]]
                 /\ rpc' = [rpc EXCEPT ![r] = "replied"]
            ELSE /\ rlocal' = [rlocal EXCEPT ![r] = l]
                 /\ rpc' = [rpc EXCEPT ![r] = "prompt"]
    /\ UNCHANGED <<nowMs, personalityMode, touched, userRequestCounts,
                   messageCache,
                   historyCount, passed>>
    /\ RFrame

(* a collaborator of generateLuminaPrompt throws: the await at line 247 is *)
(* outside the try, the promise of generateAIResponse is rejected          *)
R_PromptFails(r) ==
    /\ rpc[r] = "prompt"
    /\ rlocal' = [rlocal EXCEPT ![r].reply = "exception"]
    /\ rpc' = [rpc EXCEPT ![r] = "rejected"]
    /\ UNCHANGED <<nowMs, personalityMode, touched, userRequestCounts,
                   messageCache,
                   historyCount, requests, passed>>
    /\ RFrame

(* the prompt is built: cache key, cache lookup, rate limit, and the       *)
(* request to the inference service                                        *)
R_Gate(r) ==
    /\ rpc[r] = "prompt"
    /\ LET l == rlocal[r]
           key == CacheKey(CallContext(l, globalState.isNgambekMode))
           lim == RateLimit(userRequestCounts[l.chatId], l.now)
       IN IF CacheHas(messageCache, key)
          THEN /\ messageCache' = CacheHit(messageCache, key)
               /\ touched' = Touch(touched, key, TRUE)
               /\ rlocal' = [rlocal EXCEPT
                                ![r].cacheKey = key,
                                ![r].value = CacheGet(messageCache, key),
                                ![r].logged = "cache_hit",
                                ![r].reply = "cached"]
               /\ rpc' = [rpc EXCEPT ![r] = "replied"]
               /\ UNCHANGED <<userRequestCounts, passed>>
          ELSE IF ~lim.accept
          THEN /\ userRequestCounts' =
                     [userRequestCounts EXCEPT ![l.chatId] = lim.stats]
               /\ rlocal' = [rlocal EXCEPT ![r].cacheKey = key,
                                           ![r].reply = "busy"]
               /\ rpc' = [rpc EXCEPT ![r] = "replied"]
               /\ UNCHANGED <<messageCache, passed, touched>>
          ELSE /\ userRequestCounts' =
                     [userRequestCounts EXCEPT ![l.chatId] = lim.stats]
               /\ passed' = [passed EXCEPT ![l.chatId] =
                               Append(@, [issued |-> l.now, at |-> nowMs,
                                          count |-> lim.stats.count])]
               /\ rlocal' = [rlocal EXCEPT
                                ![r].cacheKey = key,
                                ![r].charged = @ + 1,
                                ![r].logged = "groq_api_request_start"]
               /\ rpc' = [rpc EXCEPT ![r] = "infer"]
               /\ UNCHANGED <<messageCache, touched>>
    /\ UNCHANGED <<nowMs, personalityMode, historyCount, requests>>
    /\ RFrame

(* the inference call settles: content, white space, an empty response, or *)
(* an error                                                                *)
Settles(r, o, t) ==
    /\ rpc[r] = "infer"
    /\ LET l == rlocal[r]
       IN IF o # "throw" /\ HasContent(o)
          THEN /\ rpc' = [rpc EXCEPT ![r] = "addMessage"]
               /\ rlocal' = [rlocal EXCEPT
                                ![r].outcome = o,
                                ![r].value =
                                   [text |-> Trimmed(o, t), mood |-> l.mood,
                                    personality |-> l.personality]]
          ELSE IF o # "throw"
          THEN /\ rpc' = [rpc EXCEPT ![r] = "replied"]
               /\ rlocal' = [rlocal EXCEPT
                                ![r].outcome = o,
                                ![r].logged = "groq_api_empty_response",
                                ![r].reply = "confused"]
          ELSE /\ rpc' = [rpc EXCEPT ![r] = "replied"]
               /\ rlocal' = [rlocal EXCEPT
                                ![r].outcome = o,
                                ![r].logged = "groq_api_call_error",
                                ![r].reported = TRUE,
                                ![r].reply = "trouble"]
    /\ UNCHANGED <<nowMs, personalityMode, touched, userRequestCounts,
                   messageCache,
                   historyCount, requests, passed>>
    /\ RFrame

R_Infer(r) == \E o \in Outcomes, t \in Responses : Settles(r, o, t)

(* memory.addMessage: the insert and the flush *)
R_AddMessage(r) ==
    /\ rpc[r] = "addMessage"
    /\ historyCount' = AddMessage(historyCount, rlocal[r].value.text)
    /\ rpc' = [rpc EXCEPT ![r] = "store"]
    /\ UNCHANGED <<nowMs, personalityMode, touched, userRequestCounts,
                   messageCache,
                   rlocal, requests, passed>>
    /\ RFrame

(* manageCache(messageCache, cacheKey, aiResponse); return aiResponse *)
R_Store(r) ==
    /\ rpc[r] = "store"
    /\ messageCache' =
          ManageCache(messageCache, rlocal[r].cacheKey, rlocal[r].value)
    /\ touched' = Touch(touched, rlocal[r].cacheKey, FALSE)
    /\ rlocal' = [rlocal EXCEPT ![r].reply = "answer"]
    /\ rpc' = [rpc EXCEPT ![r] = "replied"]
    /\ UNCHANGED <<nowMs, personalityMode, userRequestCounts, historyCount,
                   requests, passed>>
    /\ RFrame

(* the caller has the reply, or the rejection *)
R_Return(r) ==
    /\ rpc[r] \in {"replied", "rejected"}
    /\ rpc' = [rpc EXCEPT ![r] = "idle"]
    /\ rlocal' = [rlocal EXCEPT ![r] = NoRLocal]
    /\ UNCHANGED <<nowMs, personalityMode, touched, userRequestCounts,
                   messageCache,
                   historyCount, requests, passed>>
    /\ RFrame

Request(r) ==
    \/ R_PromptFails(r)
    \/ R_Gate(r)
    \/ R_Infer(r)
    \/ R_AddMessage(r)
    \/ R_Store(r)
    \/ R_Return(r)

(* the millisecond clock advances *)
TickMsClock ==
    /\ nowMs < MaxMsTicks * TickMs
    /\ nowMs' = nowMs + TickMs
    /\ UNCHANGED <<personalityMode, touched, userRequestCounts,
                   messageCache, historyCount, rpc, rlocal, requests, passed>>
    /\ RFrame

(* commandHandlers.setPersonalityMode(mode) *)
SetPersonalityMode(mode) ==
    /\ personalityMode' = mode
    /\ UNCHANGED <<nowMs, touched, userRequestCounts, messageCache,
                   historyCount, rpc,
                   rlocal, requests, passed>>
    /\ RFrame

(* a command handler's result carries a mood: setMood(chatId, result.mood) *)
SetMoodCall(m) ==
    /\ Install(SetMood(Shared, m, now), ulocal, klocal)
    /\ lastSet' = m
    /\ setCalls' = setCalls + 1
    /\ repeats' = IF currentMood = m THEN repeats + 1 ELSE 0
    /\ UNCHANGED <<now, featureFlags, interactionMutex, upc, kpc, calls,
                   checks, begun, origin, kBefore, kRepeat, dirty, gateVars>>

MoodCommand(m) ==
    /\ Len(notifications) < MaxMoodMessages
    /\ SetMoodCall(m)

(* the cache key of two request contexts *)
Topics == {NoText, Text("no_topic"), Text("FOOD")}
Images == {NoText, Text("no_image"), Text("a cat")}
Contexts ==
    [prompt : Prompts, topic : Topics, personality : Personalities,
     mood : {"NORMAL", "HAPPY"}, deeptalkMode : BOOLEAN,
     ngambekMode : BOOLEAN, imageContext : Images]

KeyContexts ==
    /\ contexts = <<>>
    /\ \E a, b \in Contexts, ra, rb \in BOOLEAN :
          /\ contexts' = <<a, b>>
          /\ romance' = <<ra, rb>>
          /\ keys' = <<>>
    /\ UNCHANGED <<interactionVars, requestVars, memoryVars, scheduleVars,
                   listenerVars, ltmVars, jobRunVars>>

KeyCompute ==
    /\ contexts # <<>>
    /\ keys = <<>>
    /\ keys' = <<CacheKey(contexts[1]), CacheKey(contexts[2])>>
    /\ UNCHANGED <<interactionVars, requestVars, contexts, romance, memoryVars,
                   scheduleVars, listenerVars, ltmVars, jobRunVars>>

(* the history collection and its read cache before the first message *)
MemoryIdle ==
    /\ history = EmptyBag
    /\ queryCache = [data |-> NoData, timestamp |-> 0]
    /\ apc = "idle"
    /\ alocal = NoMessage
    /\ added = 0
    /\ loaded = EmptyBag
    /\ recent = NoMessage
    /\ lastOp = "none"

RequestStart(hour) ==
    /\ nowMs = 0
    /\ jakartaHour = hour
    /\ personalityMode = "TSUNDERE"
    /\ userRequestCounts = [c \in Requesters |-> NoStats]
    /\ messageCache = <<>>
    /\ historyCount = 0
    /\ rpc = [r \in Slots |-> "idle"]
    /\ rlocal = [r \in Slots |-> NoRLocal]
    /\ requests = 0
    /\ passed = [c \in Requesters |-> <<>>]
    /\ touched = <<>>
    /\ contexts = <<>>
    /\ keys = <<>>
    /\ romance = <<>>

(* before initLuminabot has set up the scheduled jobs *)
ScheduleIdle ==
    /\ booted = FALSE
    /\ jobs = {}

(* the message listener before the first message *)
ListenerIdle ==
    /\ lpc = "idle"
    /\ lmsg = NoMessage
    /\ lbase = 0
    /\ lreply = NoMessage
    /\ messages = 0

(* the long-term memory before the first cleanup, with nothing stored *)
LtmIdle ==
    /\ ltm = EmptyBag
    /\ ltmClock = 0
    /\ cpc = "idle"
    /\ cnow = 0
    /\ deletedCount = 0
    /\ cleanupLog = "none"
    /\ cbefore = EmptyBag
    /\ cleanups = 0

(* no job has fired *)
NoRun == [job |-> "none", failed |-> FALSE, logged |-> "none",
          reported |-> FALSE, uncaught |-> FALSE]
JobsIdle ==
    /\ jpc = "idle"
    /\ jrun = NoRun
    /\ cycles = 0

GateStart(hour) ==
    /\ RequestStart(hour)
    /\ MemoryIdle
    /\ ScheduleIdle
    /\ ListenerIdle
    /\ LtmIdle
    /\ JobsIdle


---------------------------------------------------------------------------
(* The states the bot can be in when the model starts: it has run for      *)
(* PastDays days; the user last wrote today, yesterday, a day and a bit    *)
(* ago, three days ago or never.                                           *)

InitCounts(cToday, cYesterday, cOld) ==
    [d \in Days |->
        IF d = DateOf(StartTime) THEN cToday
        ELSE IF d = DateOf(StartTime) - 1 THEN cYesterday
        ELSE IF d = 0 THEN cOld
        ELSE 0]

InteractionStart ==
    \E last \in {NoTime, StartTime - 3 * DayUnits, StartTime - DayUnits - 1,
                 StartTime - DayUnits, StartTime},
       cToday \in {0, MIN_CHATS_PER_DAY_TO_END_NGAMBEK - 1,
                   MIN_CHATS_PER_DAY_TO_END_NGAMBEK},
       cYesterday \in {0, MIN_CHATS_PER_DAY_TO_END_NGAMBEK},
       cOld \in {0, 1},
       sulk \in BOOLEAN, flag \in BOOLEAN, mood \in {"NORMAL", "JEALOUS"} :
        /\ cToday > 0 => last = StartTime
        /\ cYesterday > 0 =>
              last # NoTime /\ DateOf(last) >= DateOf(StartTime) - 1
        /\ cOld > 0 => last # NoTime
        /\ sulk => last # NoTime
        /\ mood = "JEALOUS" => last # NoTime
        /\ now = StartTime
        /\ featureFlags = [ENABLE_NGAMBEK_MODE |-> flag, ENABLE_CRON_JOBS |-> TRUE,
                           ENABLE_DOC_HANDLER |-> TRUE, ENABLE_AI_VISION |-> TRUE,
                           ENABLE_ROMANCE_MODE |-> TRUE,
                           ENABLE_WEATHER_REMINDER |-> FALSE,
                           ENABLE_SONGS_NOTIFIER |-> TRUE,
                           ENABLE_DAILY_NEWS |-> TRUE,
                           ENABLE_HOLIDAYS_REMINDER |-> TRUE]
        /\ globalState = [lastInteractionTimestamp |-> last,
                          isNgambekMode |-> sulk,
                          dailyChatCounts |-> 1]
        /\ preferences = [lastInteractionTimestamp |-> last,
                          isNgambekMode |-> sulk,
                          dailyChatCounts |-> IF last = NoTime THEN NoRef ELSE 1]
        /\ heap = [r \in Refs |->
                     IF r = 1 THEN InitCounts(cToday, cYesterday, cOld)
                     ELSE EmptyCounts]
        /\ currentMood = mood
        /\ moodTimeoutId = IF mood = "JEALOUS" THEN StartTime + 1 ELSE NoTime
        /\ timeouts = IF mood = "JEALOUS" THEN <<StartTime + 1>> ELSE <<>>
        /\ lastSet = "none"
        /\ setCalls = 0
        /\ repeats = 0
        /\ notifications = <<>>
        /\ interactionMutex = [holder |-> NoCaller, queue |-> <<>>]
        /\ upc = [u \in Callers |-> "idle"]
        /\ ulocal = [u \in Callers |-> NoLocal]
        /\ kpc = "idle"
        /\ klocal = NoKLocal
        /\ calls = 0
        /\ checks = 0
        /\ begun = [d \in Days |-> 0]
        /\ origin = [gs |-> globalState, prefs |-> preferences, heap |-> heap,
                     mood |-> mood, timer |-> moodTimeoutId,
                     timeouts |-> timeouts, out |-> <<>>]
        /\ kBefore = [state |-> Snapshot(origin), now |-> now]
        /\ kRepeat = FALSE
        /\ dirty = FALSE

InitInteraction == InteractionStart /\ GateStart(SLEEP_END_HOUR)

---------------------------------------------------------------------------
(* Recordings alone: no evaluation runs *)

NextRecord ==
    \/ \E u \in Callers : U_Call(u)
    \/ \E u \in Callers : Update(u)
    \/ Tick

SpecRecord == InitInteraction /\ [][NextRecord]_vars

---------------------------------------------------------------------------
(* Recordings whose persistence calls may throw *)

(* memory.getPreference or memory.savePreference throws at its await: the  *)
(* catch logs and reports the error                                        *)
U_Throws(u) ==
    /\ upc[u] \in {"getPref", "saveLast", "saveCounts"}
    /\ UStep(u, "caught", [s |-> Shared, l |-> ulocal[u]])
    /\ UNCHANGED begun

(* the callback returns after the catch and runExclusive releases *)
U_Caught(u) ==
    /\ upc[u] = "caught"
    /\ interactionMutex' = MutexRelease(interactionMutex)
    /\ upc' = [v \in Callers |->
                 IF v = u THEN "idle"
                 ELSE IF v = interactionMutex'.holder THEN "enter"
                 ELSE upc[v]]
    /\ Install(Shared, [ulocal EXCEPT ![u] = NoLocal], klocal)
    /\ dirty' = TRUE
    /\ UNCHANGED <<calls, begun>>
    /\ UFrame

NextRecordFail ==
    \/ \E u \in Callers : U_Call(u)
    \/ \E u \in Callers : Update(u)
    \/ \E u \in Callers : U_Throws(u)
    \/ \E u \in Callers : U_Caught(u)

SpecRecordFail == InitInteraction /\ [][NextRecordFail]_vars

(* a call that holds the lock goes on: its awaits settle, by a value or by *)
(* an error, and the continuation runs                                     *)
SpecRecordFair ==
    SpecRecordFail /\ \A u \in Callers : WF_vars(Update(u) \/ U_Caught(u))


---------------------------------------------------------------------------
(* Evaluations and recordings one after the other: a recording starts only *)
(* while no evaluation runs, an evaluation only while no recording runs,   *)
(* and the clock and the mood timer stand still during an evaluation.      *)

CallersIdle == \A u \in Callers : upc[u] = "idle"

(* one after the other, which caller records makes no difference *)
QuietCall ==
    /\ kpc = "idle"
    /\ CallersIdle
    /\ calls < MaxQuietCalls
    /\ U_Call(1)
QuietCheck == CallersIdle /\ K_Call
QuietTick == kpc = "idle" /\ CallersIdle /\ Tick
QuietMoodReset == kpc = "idle" /\ CallersIdle /\ MoodReset

NextEval ==
    \/ QuietCall
    \/ \E u \in Callers : Update(u)
    \/ QuietCheck
    \/ Check
    \/ QuietTick
    \/ QuietMoodReset

SpecEval == InitInteraction /\ [][NextEval]_vars

---------------------------------------------------------------------------
(* One evaluation and the recordings that arrive while it runs *)

RaceCheck == checks = 0 /\ K_Call

NextRace ==
    \/ \E u \in Callers : U_Call(u)
    \/ \E u \in Callers : Update(u)
    \/ RaceCheck
    \/ Check

SpecRace == InitInteraction /\ [][NextRace]_vars

---------------------------------------------------------------------------
(* Evaluations and the recordings that arrive while they run, at any time  *)
(* of the day: the clock moves before the first call                       *)

EarlyTick == calls = 0 /\ checks = 0 /\ Tick

NextSulkRace ==
    \/ EarlyTick
    \/ \E u \in Callers : U_Call(u)
    \/ \E u \in Callers : Update(u)
    \/ K_Call
    \/ Check

SpecSulkRace == InitInteraction /\ [][NextSulkRace]_vars

---------------------------------------------------------------------------
(* Requests at the gate, with the interaction state at rest: a fresh       *)
(* install's state with one interaction recorded, asleep or awake.         *)

InteractionAtRest ==
    /\ InteractionStart
    /\ featureFlags["ENABLE_NGAMBEK_MODE"]
    /\ ~globalState.isNgambekMode
    /\ globalState.lastInteractionTimestamp = StartTime
    /\ heap[globalState.dailyChatCounts] = EmptyCounts
    /\ currentMood = "NORMAL"

InitGate ==
    /\ InteractionAtRest
    /\ \E hour \in {SLEEP_END_HOUR - 1, SLEEP_END_HOUR} : GateStart(hour)

(* calls overlap at their awaits; every call asks the same, its prompt is *)
(* built, and the service has one answer                                   *)
SamePrompt == "p1"
SameResponse == "a1"

SameInfer(r) ==
    \E o \in Outcomes \ {"blank"} : Settles(r, o, SameResponse)

SameRequest(r) ==
    \/ R_Gate(r)
    \/ SameInfer(r)
    \/ R_AddMessage(r)
    \/ R_Store(r)
    \/ R_Return(r)

NextGate ==
    \/ \E r \in Slots, c \in Requesters : R_Call(r, c, SamePrompt)
    \/ \E r \in Slots : SameRequest(r)
    \/ TickMsClock

SpecGate == InitGate /\ [][NextGate]_vars

(* one call at a time, each finished at the time it was made *)
SlotsIdle == \A r \in Slots : rpc[r] = "idle"

LoneCall == SlotsIdle /\ \E c \in Requesters, p \in Prompts : R_Call(1, c, p)
LoneTick == SlotsIdle /\ TickMsClock

NextThrottle ==
    \/ LoneCall
    \/ Request(1)
    \/ LoneTick

SpecThrottle == InitGate /\ [][NextThrottle]_vars


---------------------------------------------------------------------------
(* Requests at the response cache: calls overlap at their awaits while    *)
(* commands change the personality and the mood.                          *)

CacheCall(r, p) ==
    /\ requests < MaxCacheCalls
    /\ R_Call(r, "u1", p)

CacheStart == InteractionAtRest /\ GateStart(SLEEP_END_HOUR)

NextCache ==
    \/ SlotsIdle /\ \E p \in Prompts : CacheCall(1, p)
    \/ Request(1)
    \/ \E mode \in Personalities : SetPersonalityMode(mode)
    \/ MoodCommand("HAPPY")

SpecCache == CacheStart /\ [][NextCache]_vars

---------------------------------------------------------------------------
(* Overlapping calls at the response cache, while time passes and the     *)
(* personality changes between calls.                                     *)

QuietPersonality ==
    SlotsIdle /\ \E mode \in Personalities : SetPersonalityMode(mode)

StampedeCall(r, p) ==
    /\ requests < MaxStampedeCalls
    /\ R_Call(r, "u1", p)

(* every prompt is built *)
BuiltRequest(r) ==
    \/ R_Gate(r)
    \/ R_Infer(r)
    \/ R_AddMessage(r)
    \/ R_Store(r)
    \/ R_Return(r)

NextStampede ==
    \/ \E r \in Slots, p \in Prompts : StampedeCall(r, p)
    \/ \E r \in Slots : BuiltRequest(r)
    \/ LoneTick
    \/ QuietPersonality

SpecStampede == CacheStart /\ [][NextStampede]_vars

---------------------------------------------------------------------------
(* Calls one after the other while the hours pass, from before midnight    *)
(* and from inside the sleep window.                                       *)

MsPerHour == 3600 * 1000

(* timeHelper.getJakartaHour() an hour later *)
HourPasses ==
    /\ SlotsIdle
    /\ nowMs < MaxHours * MsPerHour
    /\ jakartaHour' = (jakartaHour + 1) % 24
    /\ nowMs' = nowMs + MsPerHour
    /\ UNCHANGED <<personalityMode, touched, userRequestCounts, messageCache,
                   historyCount, rpc, rlocal, requests, passed>>
    /\ UNCHANGED <<interactionVars, keyVars, memoryVars, scheduleVars,
                   listenerVars, ltmVars, jobRunVars>>

SleepCall ==
    /\ SlotsIdle
    /\ requests < MaxSleepCalls
    /\ \E p \in Prompts : R_Call(1, "u1", p)

SleepStart ==
    /\ InteractionAtRest
    /\ \E hour \in {(SLEEP_START_HOUR + 23) % 24, SLEEP_END_HOUR - 2} :
          GateStart(hour)

NextSleep ==
    \/ SleepCall
    \/ Request(1)
    \/ HourPasses

SpecSleep == SleepStart /\ [][NextSleep]_vars

---------------------------------------------------------------------------
(* The history collection of src/data/memory.js and its 5-second read     *)
(* cache. A document is <<timestamp, id>>: the timestamp in milliseconds   *)
(* since the start (ISO strings of one format order as their instants do), *)
(* id 0 for the documents stored before the start and 1, 2, ... for the    *)
(* messages inserted since.                                                *)

(* a week and a bit before the start; a minute before the start *)
OldStamp == 0 - CLEANUP_INTERVAL - 1000
MidStamp == 0 - 60 * 1000

(* the documents of b that are in the set keep *)
Restrict(b, keep) == [i \in DOMAIN b \cap keep |-> b[i]]

(* the ways to take k documents out of the bag b *)
RECURSIVE Take(_, _)
Take(b, k) ==
    IF k = 0 THEN {EmptyBag}
    ELSE IF BagCardinality(b) < k THEN {}
    ELSE LET x == CHOOSE i \in DOMAIN b : TRUE
             rest == Restrict(b, DOMAIN b \ {x})
             Copies(n) == IF n = 0 THEN EmptyBag ELSE [i \in {x} |-> n]
             Least == IF k > BagCardinality(rest) THEN k - BagCardinality(rest) ELSE 0
             Most == IF b[x] < k THEN b[x] ELSE k
         IN UNION {{Copies(n) (+) c : c \in Take(rest, k - n)} : n \in Least..Most}

(* chain().simplesort("timestamp", desc).limit(k).data(): the k first      *)
(* documents in the order; among documents of one timestamp the order is   *)
(* the sort's, so every choice among them is a possible result. dir is 1   *)
(* for descending (newest first) and -1 for ascending (oldest first).      *)
SimpleSortLimit(b, dir, k) ==
    IF BagCardinality(b) <= k THEN {b}
    ELSE LET Before_(t) == Restrict(b, {i \in DOMAIN b : dir * i[1] > dir * t})
             At_(t) == Restrict(b, {i \in DOMAIN b : i[1] = t})
             cut == CHOOSE t \in {i[1] : i \in DOMAIN b} :
                       /\ BagCardinality(Before_(t)) < k
                       /\ BagCardinality(Before_(t)) + BagCardinality(At_(t)) >= k
         IN {Before_(cut) (+) c :
                c \in Take(At_(cut), k - BagCardinality(Before_(cut)))}

(* load's query, lines 107-111 *)
RecentHistory(b) == SimpleSortLimit(b, 1, MAX_HISTORY_LENGTH)

(* queryCache.history.data && now - queryCache.history.timestamp < TTL *)
CacheFresh(qc, t) == qc.data # NoData /\ t - qc.timestamp < QUERY_CACHE_TTL

(* history.find({ timestamp: { $lt: oneWeekAgo } }), removed *)
WithoutOld(b, t) ==
    Restrict(b, {i \in DOMAIN b : ~(i[1] < t - CLEANUP_INTERVAL)})

(* the timestamps callers give a message: new Date() (lines 328, 859, 882, *)
(* 908), the Telegram date of the message (lines 776, 843), which is the   *)
(* time it was sent, or any other the caller supplies                      *)
MessageStamps(t) == {t, MidStamp, OldStamp}

(* String.prototype.trim on a string given as its sequence of characters:  *)
(* the white space at both ends goes                                       *)
RECURSIVE TrimStart(_)
TrimStart(chars) ==
    IF chars # <<>> /\ Head(chars) = " " THEN TrimStart(Tail(chars)) ELSE chars

RECURSIVE TrimEnd(_)
TrimEnd(chars) ==
    IF chars # <<>> /\ chars[Len(chars)] = " "
    THEN TrimEnd(SubSeq(chars, 1, Len(chars) - 1))
    ELSE chars

Trim(chars) == TrimEnd(TrimStart(chars))

(* what a caller passes to addMessage: no message (null or undefined), a   *)
(* message whose content is undefined or a number, or a message with a     *)
(* string content: empty, white space, or text with white space before it. *)
(* content is typeof message.content, chars the characters of a string     *)
StoredText == <<" ", "h">>
MessageArguments ==
    {[content |-> "no message", chars |-> <<>>],
     [content |-> "undefined", chars |-> <<>>],
     [content |-> "number", chars |-> <<>>]}
    \cup {[content |-> "string", chars |-> c] :
             c \in {<<>>, <<" ">>, <<" ", " ">>, StoredText}}

(* a test for a missing message only *)
Invalid_MissingOnly(message) == message.content = "no message"

(* !message || typeof message.content !== "string" ||                      *)
(* message.content.trim() === ""                                           *)
Invalid(message) ==
    \/ message.content = "no message"
    \/ message.content # "string"
    \/ Trim(message.chars) = <<>>

MemoryFrame ==
    UNCHANGED <<interactionVars, requestVars, keyVars, scheduleVars,
                listenerVars, ltmVars, jobRunVars>>

(* addMessage up to the await inside flush(): the validation, the insert   *)
(* and the invalidation of the read cache                                  *)
AddMessageOf(message, ts) ==
    /\ apc = "idle"
    /\ added < MaxAdds
    /\ IF ~Invalid(message)
       THEN LET messageToStore == <<ts, added + 1, message.chars>>
            IN /\ history' = history (+) SetToBag({messageToStore})
               /\ queryCache' = [queryCache EXCEPT !.data = NoData]
               /\ alocal' = messageToStore
               /\ added' = added + 1
               /\ apc' = "flush"
               /\ lastOp' = "insert"
               /\ UNCHANGED recent
       ELSE /\ lastOp' = "turned away"
            /\ UNCHANGED <<history, queryCache, alocal, added, apc, recent>>
    /\ UNCHANGED loaded
    /\ MemoryFrame

A_Insert ==
    \E message \in MessageArguments, ts \in MessageStamps(nowMs) :
        AddMessageOf(message, ts)

(* a trim down to the threshold in place of the maximum *)
ExcessCount_ToThreshold(currentHistoryCount) ==
    currentHistoryCount - FLUSH_THRESHOLD

(* const excessCount = currentHistoryCount - MAX_HISTORY_LENGTH *)
ExcessCount(currentHistoryCount) == currentHistoryCount - MAX_HISTORY_LENGTH

(* flush() after its await, and addMessage's return *)
A_Flush ==
    /\ apc = "flush"
    /\ LET currentHistoryCount == BagCardinality(history)
       IN IF currentHistoryCount > FLUSH_THRESHOLD
          THEN \E oldMessages \in SimpleSortLimit(history, 0 - 1,
                                     ExcessCount(currentHistoryCount)) :
                  /\ history' = history (-) oldMessages
                  /\ queryCache' = [queryCache EXCEPT !.data = NoData]
          ELSE UNCHANGED <<history, queryCache>>
    /\ apc' = "idle"
    /\ recent' = alocal
    /\ alocal' = NoMessage
    /\ lastOp' = "add"
    /\ UNCHANGED <<added, loaded>>
    /\ MemoryFrame

(* load after its await *)
Load ==
    /\ IF CacheFresh(queryCache, nowMs)
       THEN /\ loaded' = DocsOf(queryCache.data)
            /\ UNCHANGED queryCache
       ELSE \E chronologicalHistory \in RecentHistory(history) :
               /\ queryCache' = [data |-> Data(chronologicalHistory),
                                 timestamp |-> nowMs]
               /\ loaded' = chronologicalHistory
    /\ lastOp' = IF lastOp = "add" /\ apc = "idle" THEN "load after add" ELSE "load"
    /\ UNCHANGED <<history, apc, alocal, added, recent>>
    /\ MemoryFrame

(* cleanupOldMessages after its await *)
CleanupOldMessages ==
    /\ history' = WithoutOld(history, nowMs)
    /\ lastOp' = "cleanup"
    /\ UNCHANGED <<queryCache, apc, alocal, added, loaded, recent>>
    /\ MemoryFrame

(* Date.now() half a cache lifetime later *)
MemoryTick ==
    /\ nowMs < MaxMemTicks * (QUERY_CACHE_TTL \div 2)
    /\ nowMs' = nowMs + QUERY_CACHE_TTL \div 2
    /\ UNCHANGED <<jakartaHour, personalityMode, userRequestCounts, messageCache,
                   historyCount, rpc, rlocal, requests, passed, touched>>
    /\ UNCHANGED <<interactionVars, keyVars, memoryVars, scheduleVars,
                   listenerVars, ltmVars, jobRunVars>>

(* the store when the model starts: empty, one short of the limit, at the  *)
(* limit or one short of the flush threshold, with or without a document   *)
(* older than a week                                                       *)
MemoryStart ==
    \E mid \in {0, MAX_HISTORY_LENGTH - 1, MAX_HISTORY_LENGTH, FLUSH_THRESHOLD - 1},
       old \in {0, 1} :
        /\ history = [i \in {<<MidStamp, 0, StoredText>> : x \in 1..mid}
                              \cup {<<OldStamp, 0, StoredText>> : x \in 1..old} |->
                         IF i[1] = MidStamp THEN mid ELSE old]
        /\ queryCache = [data |-> NoData, timestamp |-> 0]
        /\ apc = "idle"
        /\ alocal = NoMessage
        /\ added = 0
        /\ loaded = EmptyBag
        /\ recent = NoMessage
        /\ lastOp = "none"

InitMemory ==
    /\ InteractionAtRest
    /\ RequestStart(SLEEP_END_HOUR)
    /\ MemoryStart
    /\ ScheduleIdle
    /\ ListenerIdle
    /\ LtmIdle
    /\ JobsIdle

NextMemory ==
    \/ A_Insert
    \/ A_Flush
    \/ Load
    \/ CleanupOldMessages
    \/ MemoryTick

SpecMemory == InitMemory /\ [][NextMemory]_vars

---------------------------------------------------------------------------
(* setMood calls by commands, the clock and the mood-reset timer. A call   *)
(* is made while its timer can still fire before the clock's last time.    *)

MoodTimeout == MOOD_TIMEOUT_DAYS * DayUnits

MoodSet(m) ==
    /\ setCalls < MaxMoodCalls
    /\ now <= StartTime + MaxMoodTicks
    /\ SetMoodCall(m)

MoodTick == ClockTick(StartTime + MaxMoodTicks + MoodTimeout)

(* the bot with the mood NORMAL, or JEALOUS with its reset timer pending *)
MoodStart ==
    /\ InteractionStart
    /\ featureFlags["ENABLE_NGAMBEK_MODE"]
    /\ ~globalState.isNgambekMode
    /\ globalState.lastInteractionTimestamp = StartTime
    /\ heap[globalState.dailyChatCounts] = EmptyCounts
    /\ GateStart(SLEEP_END_HOUR)

NextMood ==
    \/ \E m \in Moods : MoodSet(m)
    \/ MoodTick
    \/ MoodReset

SpecMood == MoodStart /\ [][NextMood]_vars

(* the clock advances and the event loop runs a timer that is due *)
SpecMoodFair == SpecMood /\ WF_vars(MoodTick) /\ WF_vars(MoodReset)

---------------------------------------------------------------------------
(* Start-up and the scheduler: initLuminabot runs one sulk evaluation and  *)
(* calls setupCronJobs, which registers the sulk job under its feature     *)
(* test; then time passes with no message from the user. A job that was    *)
(* not registered never runs, so there is no step of the sulk job.         *)

(* the jobs of setupCronJobs that call the sulk evaluation *)
RegisteredJobs(flags) ==
    IF isFeatureEnabled(flags, "ENABLE_SULK_MODE") THEN {"sulk"} ELSE {}

(* initLuminabot: checkNgambekStatus(configuredChatId) *)
StartupCheck == checks = 0 /\ ~booted /\ K_Call

(* initLuminabot: if (isFeatureEnabled("ENABLE_CRON_JOBS")) setupCronJobs(...) *)
SetupCronJobs ==
    /\ checks > 0
    /\ ~booted
    /\ booted' = TRUE
    /\ jobs' = IF isFeatureEnabled(featureFlags, "ENABLE_CRON_JOBS")
               THEN RegisteredJobs(featureFlags) ELSE {}
    /\ UNCHANGED <<interactionVars, requestVars, keyVars, memoryVars,
                   listenerVars, ltmVars, jobRunVars>>

ScheduleTick ==
    /\ kpc \in {"idle", "returned"}
    /\ ClockTick(StartTime + NGAMBEK_DURATION_DAYS * DayUnits + MaxTicks)

NextSchedule ==
    \/ StartupCheck
    \/ Check
    \/ SetupCronJobs
    \/ ScheduleTick

SpecSchedule == InitInteraction /\ [][NextSchedule]_vars

(* the event loop runs what is ready, and the clock advances *)
SpecScheduleFair ==
    /\ SpecSchedule
    /\ WF_vars(StartupCheck)
    /\ WF_vars(Check)
    /\ WF_vars(SetupCronJobs)
    /\ WF_vars(ScheduleTick)

---------------------------------------------------------------------------
(* The long-term memory collection and cleanupOldLTMs. A document is its   *)
(* priority and its createdAt; time is in seconds, so that sixty days fit  *)
(* the integers of the checker.                                            *)

SecondsPerDay == 24 * 60 * 60

(* the three clauses of criteria.$or: the test on the priority *)
InClause(c, priority) ==
    CASE c = 1 -> priority = 100
      [] c = 2 -> priority >= 91 /\ priority <= 99
      [] c = 3 -> priority <= 90

(* the three clauses of criteria.$or: the days in the createdAt bound *)
ClauseDays(c) == CASE c = 1 -> 60 [] c = 2 -> 14 [] c = 3 -> 5

(* createdAt bounds with $lte in place of $lt *)
Criteria_AtOrBefore(doc, t) ==
    \E c \in 1..3 :
        InClause(c, doc[1]) /\ doc[2] <= t - ClauseDays(c) * SecondsPerDay

(* criteria: { $or: [ { priority, createdAt: { $lt: ... } }, ... ] } *)
Criteria(doc, t) ==
    \E c \in 1..3 :
        InClause(c, doc[1]) /\ doc[2] < t - ClauseDays(c) * SecondsPerDay

(* a query without the limit *)
Limit_None(b, k) == {b}

(* chain().find(criteria).limit(k).data() on the matching documents b: the *)
(* first k in the collection's order, so every choice of k is possible     *)
Limit(b, k) == IF BagCardinality(b) <= k THEN {b} ELSE Take(b, k)

LtmPriorities == {0, 90, 91, 99, 100}
LtmAges ==
    UNION {{d * SecondsPerDay, d * SecondsPerDay + 1} :
              d \in {ClauseDays(c) : c \in 1..3}}
LtmDocs == {<<p, 0 - a>> : p \in LtmPriorities, a \in LtmAges}

LtmFrame ==
    UNCHANGED <<interactionVars, requestVars, keyVars, memoryVars, scheduleVars,
                listenerVars, jobRunVars>>

(* cleanupOldLTMs after its await: now, criteria, deletedCount = 0 *)
CleanupStart ==
    /\ cpc = "idle"
    /\ cleanups < MaxCleanups
    /\ cleanups' = cleanups + 1
    /\ cnow' = ltmClock
    /\ deletedCount' = 0
    /\ cbefore' = ltm
    /\ cpc' = "loop"
    /\ UNCHANGED <<ltm, ltmClock, cleanupLog>>
    /\ LtmFrame

(* one turn of the while loop with oldDocs.length > 0 *)
CleanupBatch ==
    /\ cpc = "loop"
    /\ LET found == Restrict(ltm, {doc \in DOMAIN ltm : Criteria(doc, cnow)})
       IN /\ found # EmptyBag
          /\ \E oldDocs \in Limit(found, LTM_CLEANUP_BATCH_SIZE) :
                /\ ltm' = ltm (-) oldDocs
                /\ deletedCount' = deletedCount + BagCardinality(oldDocs)
    /\ UNCHANGED <<ltmClock, cpc, cnow, cleanupLog, cbefore, cleanups>>
    /\ LtmFrame

(* the turn with no document found: hasMore = false, the closing log *)
CleanupEnd ==
    /\ cpc = "loop"
    /\ Restrict(ltm, {doc \in DOMAIN ltm : Criteria(doc, cnow)}) = EmptyBag
    /\ cleanupLog' = IF deletedCount > 0 THEN "finished" ELSE "nothing to clean"
    /\ cpc' = "idle"
    /\ UNCHANGED <<ltm, ltmClock, cnow, deletedCount, cbefore, cleanups>>
    /\ LtmFrame

(* a call on the collection throws: the catch logs the error *)
CleanupThrows ==
    /\ cpc = "loop"
    /\ cleanupLog' = "error"
    /\ cpc' = "idle"
    /\ UNCHANGED <<ltm, ltmClock, cnow, deletedCount, cbefore, cleanups>>
    /\ LtmFrame

(* a day goes by between two calls *)
LtmDayPasses ==
    /\ cpc = "idle"
    /\ ltmClock < MaxLtmDays * SecondsPerDay
    /\ ltmClock' = ltmClock + SecondsPerDay
    /\ UNCHANGED <<ltm, cpc, cnow, deletedCount, cleanupLog, cbefore, cleanups>>
    /\ LtmFrame

(* the collection when the model starts: documents of up to two kinds, of  *)
(* one kind none, one, a batch, one more than a batch or more than two     *)
(* batches                                                                 *)
LtmStart ==
    \E d1, d2 \in LtmDocs :
    \E n1 \in {0, 1, LTM_CLEANUP_BATCH_SIZE, LTM_CLEANUP_BATCH_SIZE + 1,
               2 * LTM_CLEANUP_BATCH_SIZE + 1},
       n2 \in {0, 1} :
        /\ d1 # d2
        /\ ltm = [doc \in {d1 : x \in 1..n1} \cup {d2 : x \in 1..n2} |->
                     IF doc = d1 THEN n1 ELSE n2]
        /\ ltmClock = 0
        /\ cpc = "idle"
        /\ cnow = 0
        /\ deletedCount = 0
        /\ cleanupLog = "none"
        /\ cbefore = EmptyBag
        /\ cleanups = 0

InitLtm ==
    /\ InteractionAtRest
    /\ RequestStart(SLEEP_END_HOUR)
    /\ MemoryIdle
    /\ ScheduleIdle
    /\ ListenerIdle
    /\ LtmStart
    /\ JobsIdle

NextLtm ==
    \/ CleanupStart
    \/ CleanupBatch
    \/ CleanupEnd
    \/ CleanupThrows
    \/ LtmDayPasses

SpecLtm == InitLtm /\ [][NextLtm]_vars

(* the loop of cleanupOldLTMs has no await: once begun, its turns follow   *)
(* one another until it ends                                               *)
SpecLtmFair == SpecLtm /\ WF_vars(CleanupBatch \/ CleanupEnd)

---------------------------------------------------------------------------
(* The handlers of the jobs that setupCronJobs schedules. Each is a try    *)
(* around the job's work and a catch that logs the error and calls         *)
(* Sentry.captureException, where Sentry is the sixth parameter of         *)
(* setupCronJobs.                                                          *)

(* setupCronJobs = (bot, updateTimeBasedModes, checkNgambekStatus,         *)
(* USER_NAME, configuredChatId, Sentry) => ...                             *)
SetupCronJobsParameters ==
    <<"bot", "updateTimeBasedModes", "checkNgambekStatus", "USER_NAME",
      "configuredChatId", "Sentry">>

(* initLuminabot: setupCronJobs(bot, updateTimeBasedModes,                 *)
(* checkNgambekStatus, configuredChatId, Sentry), each argument named by   *)
(* the value it is                                                         *)
InitLuminabotArguments ==
    <<"the bot", "the updateTimeBasedModes function",
      "the checkNgambekStatus function", "the chat id", "the Sentry object">>

(* the value a parameter has in the call: positional, undefined past the   *)
(* last argument                                                           *)
ParameterValue(arguments, name) ==
    LET i == CHOOSE k \in DOMAIN SetupCronJobsParameters :
                 SetupCronJobsParameters[k] = name
    IN IF i <= Len(arguments) THEN arguments[i] ELSE "undefined"

(* the exports of data/memory.js *)
MemoryExports ==
    {"load", "addMessage", "getPreference", "savePreference",
     "deletePreference", "getLTMMemories", "saveLTMMemory", "closeDb"}

(* the first call on the memory module in a job's try block, if it has one *)
FirstMemoryCall(job) ==
    CASE job = "LTM cleanup" -> "getLongTermMemory"
      [] job = "chat summary" -> "getInMemoryHistory"
      [] OTHER -> "none"

(* the jobs scheduled with a try and a catch around their work: without a  *)
(* flag, or under a flag (the holiday job also needs its API key, taken as *)
(* configured)                                                             *)
MaintenanceJobs(flags) ==
    {"LTM cleanup", "relationship check", "time modes", "chat summary"}
    \cup (IF isFeatureEnabled(flags, "ENABLE_WEATHER_REMINDER")
          THEN {"weather"} ELSE {})
    \cup (IF isFeatureEnabled(flags, "ENABLE_SONGS_NOTIFIER")
          THEN {"songs"} ELSE {})
    \cup (IF isFeatureEnabled(flags, "ENABLE_DAILY_NEWS")
          THEN {"daily news"} ELSE {})
    \cup (IF isFeatureEnabled(flags, "ENABLE_HOLIDAYS_REMINDER")
          THEN {"holidays"} ELSE {})
    \cup (IF isFeatureEnabled(flags, "ENABLE_SULK_MODE") THEN {"sulk"} ELSE {})

JobFrame ==
    UNCHANGED <<interactionVars, requestVars, keyVars, memoryVars, scheduleVars,
                listenerVars, ltmVars>>

(* the schedule fires a job: its handler is called *)
JobFires ==
    /\ booted
    /\ isFeatureEnabled(featureFlags, "ENABLE_CRON_JOBS")
    /\ ParameterValue(InitLuminabotArguments, "configuredChatId") # "undefined"
    /\ jpc = "idle"
    /\ cycles < MaxCycles
    /\ \E job \in MaintenanceJobs(featureFlags) :
          jrun' = [NoRun EXCEPT !.job = job]
    /\ jpc' = "try"
    /\ cycles' = cycles + 1
    /\ JobFrame

(* the try block: a call of something the memory module does not export    *)
(* throws a TypeError; any other work goes through or throws               *)
JobWork ==
    /\ jpc = "try"
    /\ \E throws \in BOOLEAN :
          IF throws \/ (FirstMemoryCall(jrun.job) # "none"
                          /\ FirstMemoryCall(jrun.job) \notin MemoryExports)
          THEN /\ jrun' = [jrun EXCEPT !.failed = TRUE]
               /\ jpc' = "catch"
          ELSE /\ jpc' = "idle"
               /\ UNCHANGED jrun
    /\ UNCHANGED cycles
    /\ JobFrame

(* the catch block: logger.error, then Sentry.captureException(error); the *)
(* property access on undefined throws out of the catch                    *)
JobCatch ==
    /\ jpc = "catch"
    /\ IF ParameterValue(InitLuminabotArguments, "Sentry") = "undefined"
       THEN jrun' = [jrun EXCEPT !.logged = "error", !.uncaught = TRUE]
       ELSE jrun' = [jrun EXCEPT !.logged = "error", !.reported = TRUE]
    /\ jpc' = "idle"
    /\ UNCHANGED cycles
    /\ JobFrame

NextJobs ==
    \/ StartupCheck
    \/ Check
    \/ SetupCronJobs
    \/ JobFires
    \/ JobWork
    \/ JobCatch

SpecJobs == InitInteraction /\ [][NextJobs]_vars

---------------------------------------------------------------------------
(* The message listener of setupMessageListener, one message at a time: a  *)
(* message has or lacks a location, a document and a photo, and its text   *)
(* (or caption) is empty or not.                                           *)

InboundMessages ==
    [location : BOOLEAN, document : BOOLEAN, photo : BOOLEAN,
     text : {"", "hi"}]

(* the branch the listener takes: the tests at lines 662, 729, 752, 817 *)
Branch(msg, flags) ==
    IF msg.location THEN "location"
    ELSE IF msg.document /\ isFeatureEnabled(flags, "ENABLE_DOC_HANDLER")
         THEN "document"
    ELSE IF msg.photo /\ isFeatureEnabled(flags, "ENABLE_AI_VISION")
         THEN "photo"
    ELSE IF msg.text = "" THEN "ignored"
    ELSE "text"

ListenerFrame ==
    UNCHANGED <<interactionVars, requestVars, keyVars, memoryVars, scheduleVars,
                ltmVars, jobRunVars>>

(* bot.on("message"): the message arrives and its branch is chosen *)
L_Message ==
    /\ lpc = "idle"
    /\ messages < MaxMessages
    /\ \E msg \in InboundMessages :
          /\ lmsg' = msg
          /\ lpc' = CASE Branch(msg, featureFlags) = "ignored" -> "idle"
                      [] Branch(msg, featureFlags) = "photo" -> "vision"
                      [] OTHER -> "record"
    /\ lbase' = calls
    /\ messages' = messages + 1
    /\ UNCHANGED lreply
    /\ ListenerFrame

(* await updateInteractionStatus(): the call *)
L_Record ==
    /\ lpc = "record"
    /\ calls = lbase
    /\ U_Call(1)

(* await updateInteractionStatus(): the call has returned *)
L_Recorded ==
    /\ lpc = "record"
    /\ calls > lbase
    /\ upc[1] = "idle"
    /\ lpc' = "reply"
    /\ UNCHANGED <<lmsg, lbase, lreply, messages>>
    /\ ListenerFrame

(* the photo branch: getFileLink and the vision request, lines 753-763 *)
L_Vision ==
    /\ lpc = "vision"
    /\ lpc' = "reply"
    /\ UNCHANGED <<lmsg, lbase, lreply, messages>>
    /\ ListenerFrame

(* the branch's reply is produced and handed to sendMessage *)
L_Reply ==
    /\ lpc = "reply"
    /\ lreply' = [branch |-> Branch(lmsg, featureFlags),
                  recorded |-> calls - lbase]
    /\ lpc' = "idle"
    /\ UNCHANGED <<lmsg, lbase, messages>>
    /\ ListenerFrame

NextListener ==
    \/ L_Message
    \/ L_Record
    \/ Update(1)
    \/ L_Recorded
    \/ L_Vision
    \/ L_Reply

SpecListener == InitInteraction /\ [][NextListener]_vars

---------------------------------------------------------------------------
(* The cache key as a function: two request contexts, then their keys *)

NextKey ==
    \/ KeyContexts
    \/ KeyCompute

SpecKey == CacheStart /\ [][NextKey]_vars

---------------------------------------------------------------------------
(* C1.  Recordings exclude one another, and none is lost: at most one      *)
(* updateInteractionStatus call is between taking and releasing the lock,  *)
(* and once all calls have completed, the entry of every date, in memory   *)
(* and in the saved preference, has grown by exactly the number of calls   *)
(* that read the clock on that date.                                       *)

InCriticalSection(u) == upc[u] \notin {"idle", "waiting"}

C1_NoLostUpdate ==
    /\ Cardinality({u \in Callers : InCriticalSection(u)}) <= 1
    /\ (CallersIdle /\ calls > 0) =>
          /\ preferences.dailyChatCounts # NoRef
          /\ \A d \in Days :
                /\ heap[globalState.dailyChatCounts][d]
                      = origin.heap[origin.gs.dailyChatCounts][d] + begun[d]
                /\ heap[preferences.dailyChatCounts][d]
                      = origin.heap[origin.gs.dailyChatCounts][d] + begun[d]

C1_Witness ==
    /\ CallersIdle
    /\ calls = MaxCalls
    /\ begun[DateOf(now)] = MaxCalls
    /\ heap[preferences.dailyChatCounts][DateOf(now)]
          = origin.heap[origin.gs.dailyChatCounts][DateOf(now)] + MaxCalls

---------------------------------------------------------------------------
(* C2.  One evaluation and the recordings that overlap it leave the count  *)
(* map, in memory and saved, as some order of whole calls would: the       *)
(* evaluation after j of the n recordings.                                 *)

RECURSIVE SeqUpdates(_, _, _)
SeqUpdates(s, t, n) == IF n = 0 THEN s ELSE SeqUpdates(SeqUpdate(s, t), t, n - 1)

CountsOutcome(s) ==
    [memory |-> s.heap[s.gs.dailyChatCounts],
     saved |-> IF s.prefs.dailyChatCounts = NoRef THEN <<>>
               ELSE <<s.heap[s.prefs.dailyChatCounts]>>]

SerialOutcomes(n) ==
    {CountsOutcome(
        SeqUpdates(SeqCheck(SeqUpdates(origin, now, j), featureFlags, now, m),
                   now, n - j)) : j \in 0..n, m \in RandomMoods}

RaceDone == checks = 1 /\ kpc = "idle" /\ CallersIdle

C2_Serializable == RaceDone => CountsOutcome(Shared) \in SerialOutcomes(calls)

---------------------------------------------------------------------------
(* The evaluation that has just returned, the state it started from and    *)
(* the time since the last interaction when it started.                    *)

Returned == kpc = "returned"
Before == kBefore.state
Enabled == featureFlags["ENABLE_NGAMBEK_MODE"]
Elapsed == kBefore.now - Before.lastInteractionTimestamp
SavedCountsNow ==
    IF preferences.dailyChatCounts = NoRef THEN <<>>
    ELSE <<heap[preferences.dailyChatCounts]>>

(* C3 as stated: with the feature on, sulk off and the last interaction    *)
(* three days back, one evaluation sets isNgambekMode, saves it and sends  *)
(* exactly one message.                                                    *)
C3_OneMessage ==
    (Returned /\ Enabled /\ ~Before.isNgambekMode
       /\ Before.lastInteractionTimestamp # NoTime
       /\ Elapsed = 3 * DayUnits)
    => /\ globalState.isNgambekMode
       /\ preferences.isNgambekMode = TRUE
       /\ Len(notifications) = 1

(* C3.  With the feature on, sulk off and the last interaction three days  *)
(* back, one evaluation sets isNgambekMode, saves it and sends exactly one *)
(* sulk notification; setMood sends a mood message before it unless the    *)
(* mood was JEALOUS already.                                               *)
C3_EnterSulk ==
    (Returned /\ Enabled /\ ~Before.isNgambekMode
       /\ Before.lastInteractionTimestamp # NoTime
       /\ Elapsed = 3 * DayUnits)
    => /\ globalState.isNgambekMode
       /\ preferences.isNgambekMode = TRUE
       /\ currentMood = "JEALOUS"
       /\ notifications = IF Before.mood = "JEALOUS" THEN <<"ngambek">>
                          ELSE <<"mood", "ngambek">>

C3_Witness ==
    /\ Returned /\ Enabled /\ ~Before.isNgambekMode
    /\ Before.lastInteractionTimestamp # NoTime
    /\ Elapsed = 3 * DayUnits
    /\ Before.mood # "JEALOUS"
    /\ preferences.isNgambekMode = TRUE
    /\ notifications = <<"mood", "ngambek">>

(* C4 as stated: with fewer than two whole days since the last             *)
(* interaction, an evaluation that starts with sulk off leaves it off and  *)
(* sends no sulk notification.                                             *)
C4_NoEarlySulk ==
    (Returned /\ Enabled /\ ~Before.isNgambekMode
       /\ Before.lastInteractionTimestamp # NoTime
       /\ Elapsed >= 0
       /\ Elapsed < NGAMBEK_DURATION_DAYS * DayUnits)
    => /\ ~globalState.isNgambekMode
       /\ \A i \in 1..Len(notifications) : notifications[i] # "ngambek"

(* C5 as stated: with sulk on and each of the last two calendar days at    *)
(* six interactions or more, one evaluation sets isNgambekMode false,      *)
(* saves it and leaves the count map empty in memory and saved.            *)
C5_ExitAlways ==
    (Returned /\ Before.isNgambekMode
       /\ HasSufficientInteraction(Before.dailyChatCounts, kBefore.now))
    => /\ ~globalState.isNgambekMode
       /\ preferences.isNgambekMode = FALSE
       /\ heap[globalState.dailyChatCounts] = EmptyCounts
       /\ SavedCountsNow = <<EmptyCounts>>

(* C5.  With the feature on, sulk on and each of the last two calendar     *)
(* days at six interactions or more, one evaluation sets isNgambekMode     *)
(* false, saves it, and leaves the count map empty in memory and saved.    *)
C5_ExitSulk ==
    (Returned /\ Enabled /\ Before.isNgambekMode
       /\ HasSufficientInteraction(Before.dailyChatCounts, kBefore.now))
    => /\ ~globalState.isNgambekMode
       /\ preferences.isNgambekMode = FALSE
       /\ heap[globalState.dailyChatCounts] = EmptyCounts
       /\ SavedCountsNow = <<EmptyCounts>>

C5_Witness ==
    /\ Returned /\ Enabled /\ Before.isNgambekMode
    /\ HasSufficientInteraction(Before.dailyChatCounts, kBefore.now)
    /\ Before.savedCounts = <<Before.dailyChatCounts>>
    /\ ~globalState.isNgambekMode
    /\ SavedCountsNow = <<EmptyCounts>>
    /\ notifications[Len(notifications)] = "back"

(* C6.  With the feature on and sulk on, an evaluation that finds one of   *)
(* the last two calendar days below six leaves isNgambekMode true, sends   *)
(* nothing and resets no count (the map only loses its old dates); and     *)
(* with the feature on, isNgambekMode turns false only in the step that    *)
(* takes the exit branch, on sufficient counts.                            *)
SomeDayShort(counts, t) ==
    \E d \in {DateOf(t), DateOf(t) - 1} :
        d \notin Days \/ counts[d] < MIN_CHATS_PER_DAY_TO_END_NGAMBEK

C6_Kept ==
    (Returned /\ Enabled /\ Before.isNgambekMode
       /\ SomeDayShort(Before.dailyChatCounts, kBefore.now))
    => /\ globalState.isNgambekMode
       /\ preferences.isNgambekMode = Before.savedNgambek
       /\ notifications = <<>>
       /\ heap[globalState.dailyChatCounts]
             = PruneOld(Before.dailyChatCounts, kBefore.now)
       /\ SavedCountsNow = <<PruneOld(Before.dailyChatCounts, kBefore.now)>>

C6_OnlyExit ==
    (Enabled /\ globalState.isNgambekMode /\ ~globalState.isNgambekMode')
    => /\ kpc' = "exitSave1"
       /\ ~SomeDayShort(heap[globalState.dailyChatCounts], now)

C6_SulkKept == [](C6_Kept) /\ [][C6_OnlyExit]_vars

C6_Witness ==
    /\ Returned /\ Enabled /\ Before.isNgambekMode
    /\ SomeDayShort(Before.dailyChatCounts, kBefore.now)
    /\ CountOn(Before.dailyChatCounts, DateOf(kBefore.now))
          >= MIN_CHATS_PER_DAY_TO_END_NGAMBEK
    /\ globalState.isNgambekMode
    /\ heap[globalState.dailyChatCounts] # EmptyCounts

(* C7.  An evaluation repeated with no time passed and no interaction      *)
(* since the one before it sends nothing and leaves isNgambekMode, the     *)
(* mood and its timer, the count map and the saved preferences as the      *)
(* first one left them.                                                    *)
C7_Idempotent ==
    (Returned /\ kRepeat)
    => /\ notifications = <<>>
       /\ Snapshot(Shared) = Before

C7_Witness ==
    /\ Returned /\ kRepeat /\ Enabled
    /\ calls = 0
    /\ ~origin.gs.isNgambekMode
    /\ globalState.isNgambekMode
    /\ Snapshot(Shared) = Before

(* C8.  With ENABLE_NGAMBEK_MODE off, an evaluation forces a true          *)
(* isNgambekMode to false and saves it, and changes nothing else: no       *)
(* message, no mood change, no change of lastInteractionTimestamp or of    *)
(* the count map.                                                          *)
C8_FeatureOff ==
    (Returned /\ ~Enabled)
    => /\ ~globalState.isNgambekMode
       /\ notifications = <<>>
       /\ Snapshot(Shared) =
             IF Before.isNgambekMode
             THEN [Before EXCEPT !.isNgambekMode = FALSE,
                                 !.savedNgambek = FALSE]
             ELSE Before

C8_Witness ==
    /\ Returned /\ ~Enabled
    /\ Before.isNgambekMode
    /\ Before.savedNgambek = TRUE
    /\ ~globalState.isNgambekMode
    /\ preferences.isNgambekMode = FALSE

---------------------------------------------------------------------------
(* C9 as stated: per requester, once three requests of one 20-second       *)
(* window were accepted, no further request of that window reaches the     *)
(* inference service: no four calls passed the gate that were all made,    *)
(* and all sent on, within one window.                                     *)

Burst(log) ==
    \E S \in SUBSET (1..Len(log)) :
        /\ Cardinality(S) = RATE_LIMIT_MAX_REQUESTS + 1
        /\ \A i, j \in S : log[j].at - log[i].issued < RATE_LIMIT_WINDOW_MS

C9_WindowCeiling == \A c \in Requesters : ~Burst(passed[c])

(* C10 as stated: a request made 20 s or more after the first request      *)
(* counted in the requester's current window is not throttled.             *)

WindowStart(log) ==
    LET first == {i \in 1..Len(log) : log[i].count = 1}
        last == CHOOSE i \in first : \A j \in first : j <= i
    IN log[last].issued

C10_FreeAfterWindow ==
    \A r \in Slots :
        (rpc[r] = "replied" /\ rlocal[r].reply = "busy")
        => rlocal[r].now - WindowStart(passed[rlocal[r].chatId])
              < RATE_LIMIT_WINDOW_MS

---------------------------------------------------------------------------
(* C11.  Calls one after the other: a request accepted RATE_LIMIT_WINDOW_MS *)
(* or more after the requester's last accepted one leaves the counter at   *)
(* exactly 1, whatever it was; an accepted request inside the window adds  *)
(* one; the record holds the count and the time of the last accepted       *)
(* request; and a request is refused only at a count of                    *)
(* RATE_LIMIT_MAX_REQUESTS inside the window, so three requests of the new *)
(* window are accepted.                                                    *)

Rollover(log, i) == log[i].issued - log[i - 1].issued >= RATE_LIMIT_WINDOW_MS

---------------------------------------------------------------------------
(* C12.  The step that refuses a request for the rate limit is the step    *)
(* that read the limit, and it leaves the requester's record (count and    *)
(* time), every other record, the response cache and the history as they   *)
(* were and sends nothing to the inference service; the refused call then  *)
(* only returns: it is not queued and does not run again.                  *)

Refused(r) == rpc[r] = "replied" /\ rlocal[r].reply = "busy"

C12_RefusalFrame ==
    [][\A r \in Slots :
          /\ (~Refused(r) /\ Refused(r)')
             => /\ rpc[r] = "prompt"
                /\ UNCHANGED <<userRequestCounts, messageCache,
                                historyCount, passed>>
                /\ rlocal'[r].charged = 0
          /\ Refused(r)
             => \/ UNCHANGED <<rpc[r], rlocal[r]>>
                \/ rpc'[r] = "idle" /\
                   UNCHANGED <<userRequestCounts, messageCache,
                               historyCount, passed>>]_vars

C12_Witness ==
    \E r \in Slots :
        /\ Refused(r)
        /\ userRequestCounts[rlocal[r].chatId].count = RATE_LIMIT_MAX_REQUESTS
        /\ messageCache # <<>>
        /\ historyCount > 0

---------------------------------------------------------------------------
(* The keys the cache holds, the value held under a key, and the key of    *)
(* the call in slot r                                                      *)

CachedKeys == {messageCache[i].key : i \in 1..Len(messageCache)}
ValueAt(cache, k) ==
    LET held == {i \in 1..Len(cache) : cache[i].key = k}
    IN cache[CHOOSE i \in held : TRUE].value
KeyOf(r) == CacheKey(CallContext(rlocal[r], globalState.isNgambekMode))
AtGate(r) == rpc[r] = "prompt" /\ rpc'[r] \notin {"prompt", "rejected"}
Storing(r) == rpc[r] = "store" /\ rpc'[r] = "replied"

(* a lookup of a held key returns the value held *)
LookupReturnsHeld ==
    \A r \in Slots :
        (AtGate(r) /\ KeyOf(r) \in CachedKeys)
        => /\ rlocal'[r].reply = "cached"
           /\ rlocal'[r].value = ValueAt(messageCache, KeyOf(r))

(* a key leaves a full cache only, at a store of another key *)
LeavesByCapacity ==
    \A k \in CachedKeys :
        k \notin CachedKeys'
        => /\ Len(messageCache) = CacheMax
           /\ \E r \in Slots : Storing(r) /\ rlocal[r].cacheKey # k

(* the passing of time leaves the cache as it is *)
TimeKeepsCache == nowMs' # nowMs => messageCache' = messageCache

(* C13 as stated: a lookup of a held key returns the value held; a key     *)
(* leaves the cache only under capacity pressure, never by the passing of  *)
(* time; and as long as a key is held the value under it stays the value   *)
(* that was stored.                                                        *)
C13_StoredValueKept ==
    [][/\ LookupReturnsHeld
       /\ LeavesByCapacity
       /\ TimeKeepsCache
       /\ \A k \in CachedKeys \cap CachedKeys' :
             ValueAt(messageCache', k) = ValueAt(messageCache, k)]_vars

(* C13.  A lookup of a held key returns the value held; a key leaves the   *)
(* cache only under capacity pressure, never by the passing of time; and   *)
(* as long as a key is held the value under it changes only when a call    *)
(* that missed the cache with the same key stores its own response: the    *)
(* lookup returns the value stored last.                                   *)
C13_LastStoredValueKept ==
    [][/\ LookupReturnsHeld
       /\ LeavesByCapacity
       /\ TimeKeepsCache
       /\ \A k \in CachedKeys \cap CachedKeys' :
             \/ ValueAt(messageCache', k) = ValueAt(messageCache, k)
             \/ \E r \in Slots :
                   /\ Storing(r)
                   /\ rlocal[r].cacheKey = k
                   /\ ValueAt(messageCache', k) = rlocal[r].value]_vars

C13_Witness ==
    \E r \in Slots :
        /\ rpc[r] = "replied"
        /\ rlocal[r].reply = "cached"
        /\ rlocal[r].now >= RATE_LIMIT_WINDOW_MS
        /\ rlocal[r].value = ValueAt(messageCache, rlocal[r].cacheKey)
        /\ Len(messageCache) = CacheMax
        /\ \A i \in 1..Len(passed["u1"]) : passed["u1"][i].issued = 0

(* C14.  Whenever an entry leaves the cache, the cache was full, a store   *)
(* of another key pushed it out, and it was the entry whose last store or  *)
(* hit lies furthest back among the entries held: a hit counts as a touch. *)

LeastRecent(k) ==
    \E i \in 1..Len(touched) :
        /\ touched[i].key = k
        /\ \A j \in 1..(i - 1) : touched[j].key \notin CachedKeys

C14_EvictsLeastRecent ==
    [][\A k \in CachedKeys :
          k \notin CachedKeys'
          => /\ Len(messageCache) = CacheMax
             /\ LeastRecent(k)
             /\ \E r \in Slots : Storing(r)]_vars

C14_Witness ==
    /\ Len(messageCache) = CacheMax
    /\ Len(touched) > CacheMax
    /\ touched[1].key \notin CachedKeys
    /\ \E i \in 2..Len(touched) : touched[i].hit /\ touched[i].key \in CachedKeys
    /\ \E r \in Slots : rpc[r] = "replied" /\ rlocal[r].reply = "answer"

---------------------------------------------------------------------------
(* C15.  Calls one after the other: a call that reaches the cache lookup   *)
(* while its key is held gets the held value, logs the hit, and neither    *)
(* charges the rate limit nor is sent to the inference service; so no call *)
(* is at the inference service while the cache holds its key.              *)

C15_NoInferenceOnHit ==
    /\ [](\A r \in Slots :
            rpc[r] \in {"infer", "addMessage", "store"}
            => rlocal[r].cacheKey \notin CachedKeys)
    /\ [][\A r \in Slots :
            (AtGate(r) /\ KeyOf(r) \in CachedKeys)
            => /\ rpc'[r] = "replied"
               /\ rlocal'[r].reply = "cached"
               /\ rlocal'[r].value = ValueAt(messageCache, KeyOf(r))
               /\ rlocal'[r].logged = "cache_hit"
               /\ rlocal'[r].charged = 0
               /\ UNCHANGED <<userRequestCounts, passed, historyCount>>]_vars

C15_Witness ==
    \E r \in Slots :
        /\ rpc[r] = "replied"
        /\ rlocal[r].reply = "cached"
        /\ rlocal[r].logged = "cache_hit"
        /\ rlocal[r].value.text \in Responses
        /\ userRequestCounts[rlocal[r].chatId].count = 1
        /\ requests >= 3

---------------------------------------------------------------------------
(* C17.  A reply from the cache was stored by a call made under the same   *)
(* mood and the same personality as the call that receives it, and the     *)
(* cache holds one entry per key: calls that differ in mood or personality *)
(* have entries of their own.                                              *)

C17_OwnMoodAndPersonality ==
    /\ \A r \in Slots :
          (rpc[r] = "replied" /\ rlocal[r].reply = "cached")
          => /\ rlocal[r].value.mood = rlocal[r].mood
             /\ rlocal[r].value.personality = rlocal[r].personality
    /\ \A i, j \in 1..Len(messageCache) :
          (i # j) =>
             /\ messageCache[i].key # messageCache[j].key
             /\ <<messageCache[i].key[1], messageCache[i].value.mood,
                   messageCache[i].value.personality>>
                # <<messageCache[j].key[1], messageCache[j].value.mood,
                    messageCache[j].value.personality>>

C17_Witness ==
    \E r \in Slots, i \in 1..Len(messageCache) :
        /\ rpc[r] = "replied"
        /\ rlocal[r].reply = "cached"
        /\ messageCache[i].key # rlocal[r].cacheKey
        /\ messageCache[i].key[1] = rlocal[r].prompt
        /\ messageCache[i].value.mood # rlocal[r].mood
        /\ messageCache[i].value.text # rlocal[r].value.text

---------------------------------------------------------------------------
(* C16 as stated: the cache key is an injective function of the request    *)
(* context (prompt, topic or none, personality, mood name, deep-talk flag, *)
(* sulk flag, image description or none): two contexts have the same key   *)
(* exactly when they are the same context, also when one has no topic or   *)
(* no image and the other has the sentinel text as its topic or image      *)
(* description.                                                            *)

C16_KeyInjective ==
    keys # <<>> => ((keys[1] = keys[2]) <=> (contexts[1] = contexts[2]))

---------------------------------------------------------------------------
(* The call in slot r failed at the inference service: the request threw,  *)
(* or the response came without content.                                   *)

Failure(r) == rlocal[r].outcome \in {"empty", "throw"}
Fallbacks == {"confused", "trouble"}

(* C18.  Calls one after the other: when the inference call throws or      *)
(* returns no content, the call replies with a fallback; the step that     *)
(* takes the failure and the return that follows leave the response cache, *)
(* the history and every rate-limit record as they were, so the cache      *)
(* holds nothing under the call's key, and the requester's record was set  *)
(* exactly once by this call, at its own time.                             *)

C18_FailureFrame ==
    /\ [](\A r \in Slots :
            Failure(r)
            => /\ rpc[r] = "replied"
               /\ rlocal[r].reply \in Fallbacks
               /\ rlocal[r].cacheKey \notin CachedKeys
               /\ rlocal[r].charged = 1
               /\ userRequestCounts[rlocal[r].chatId].lastCalled
                     = rlocal[r].now)
    /\ [][\A r \in Slots :
            (Failure(r) \/ Failure(r)')
            => UNCHANGED <<messageCache, historyCount, userRequestCounts,
                           passed>>]_vars

C18_Witness ==
    \E r \in Slots :
        /\ Failure(r)
        /\ rlocal[r].outcome = "empty"
        /\ rlocal[r].reply = "confused"
        /\ historyCount > 0
        /\ messageCache # <<>>
        /\ userRequestCounts[rlocal[r].chatId].count = 2

---------------------------------------------------------------------------
(* C19 as stated: every inference failure, a thrown error and a response   *)
(* without content alike, is logged as an error, reported to the           *)
(* error-tracking sink and answered with a fallback.                       *)

C19_FailureReported ==
    \A r \in Slots :
        Failure(r)
        => /\ rlocal[r].logged
                 \in {"groq_api_empty_response", "groq_api_call_error"}
           /\ rlocal[r].reported
           /\ rlocal[r].reply \in Fallbacks

---------------------------------------------------------------------------
(* C20 as stated: generateAIResponse resolves to a reply on every path: no *)
(* call ends with its promise rejected.                                    *)

C20_AlwaysResolves == \A r \in Slots : rpc[r] # "rejected"

---------------------------------------------------------------------------
(* C21.  A call made at hour 0, 1, 2 or 3 gets the sleep reply in the step *)
(* that makes it: no prompt is assembled, no key computed, nothing logged, *)
(* the limiter is not charged, and the response cache, the rate-limit      *)
(* records and the history stay as they were, up to and including the      *)
(* call's return. A call made at any other hour goes on to prompt          *)
(* assembly.                                                               *)

Sleeping(r) == rpc[r] = "replied" /\ rlocal[r].reply = "sleep"

C21_SleepFirst ==
    [][\A r \in Slots :
          /\ (rpc[r] = "idle" /\ rpc'[r] # "idle")
             => IF jakartaHour \in 0..3
                THEN /\ Sleeping(r)'
                     /\ rlocal'[r].cacheKey = <<>>
                     /\ rlocal'[r].logged = "none"
                     /\ rlocal'[r].charged = 0
                     /\ UNCHANGED <<messageCache, userRequestCounts,
                                     historyCount, passed>>
                ELSE rpc'[r] = "prompt"
          /\ Sleeping(r)
             => /\ UNCHANGED <<messageCache, userRequestCounts,
                                historyCount, passed>>
                /\ \/ UNCHANGED <<rpc[r], rlocal[r]>>
                   \/ rpc'[r] = "idle"]_vars

C21_Witness ==
    \E r \in Slots :
        /\ Sleeping(r)
        /\ jakartaHour = 0
        /\ \E i \in 1..Len(messageCache) :
              messageCache[i].key[1] = rlocal[r].prompt
        /\ historyCount > 0
        /\ userRequestCounts["u1"].count > 0

---------------------------------------------------------------------------
(* C23. A load that directly follows a completed addMessage of a valid     *)
(* message returns a history that contains that message, whatever the      *)
(* store held, whatever the read cache held and whatever timestamp the     *)
(* message carries.                                                        *)

C23_ReadYourWrite ==
    lastOp = "load after add" => BagIn(recent, loaded)

---------------------------------------------------------------------------
(* C24. What load returns is a result of the query on the store as it is:  *)
(* it has no document that was removed from the collection and misses none *)
(* of the newest MAX_HISTORY_LENGTH that were inserted.                    *)

C24_LoadIsCurrent ==
    lastOp \in {"load", "load after add"} => loaded \in RecentHistory(history)

---------------------------------------------------------------------------
(* C25. A setMood call with the mood that is already current leaves the    *)
(* current mood as it is and sends no mood notification, whatever the mood *)
(* and however many such calls came before.                                *)

C25_SameMoodIsSilent ==
    [][setCalls' # setCalls /\ lastSet' = currentMood
          => /\ currentMood' = currentMood
             /\ notifications' = notifications]_vars

C25_Witness ==
    /\ repeats >= 2
    /\ lastSet = "HAPPY"
    /\ currentMood = "HAPPY"
    /\ Len(notifications) = 1

---------------------------------------------------------------------------
(* C26. At most one mood-reset timer is pending, and it is the one the     *)
(* variable moodTimeoutId refers to: a setMood call leaves no timer of an   *)
(* earlier call pending, only the one it schedules itself.                 *)

C26_OneTimerPending ==
    /\ Len(timeouts) <= 1
    /\ timeouts = IF moodTimeoutId = NoTime THEN <<>> ELSE <<moodTimeoutId>>
    /\ (lastSet \in Moods \ {"NORMAL", "CALM"} /\ timeouts # <<>>)
          => \E t \in StartTime..now : timeouts = <<t + MoodTimeout>>

C26_Witness ==
    /\ origin.timer = StartTime + 1
    /\ setCalls = 1
    /\ lastSet = "HAPPY"
    /\ currentMood = "HAPPY"
    /\ timeouts = <<StartTime + MoodTimeout>>
    /\ now > origin.timer

---------------------------------------------------------------------------
(* C27. After a setMood call with a mood other than NORMAL and CALM the    *)
(* mood is the one set for as long as the call's timer is pending, and     *)
(* unless another setMood call is made the mood becomes NORMAL.            *)

C27_RevertsToNormal ==
    /\ [](lastSet \in Moods \ {"NORMAL", "CALM"} /\ timeouts # <<>>
             => currentMood = lastSet)
    /\ \A n \in 1..(MaxMoodCalls + 1) :
          (setCalls = n /\ lastSet \in Moods \ {"NORMAL", "CALM"})
             ~> (currentMood = "NORMAL" \/ setCalls > n)

C27_Witness ==
    /\ lastSet = "HAPPY"
    /\ setCalls = 1
    /\ currentMood = "NORMAL"
    /\ origin.mood = "NORMAL"
    /\ timeouts = <<>>

---------------------------------------------------------------------------
(* C28. After a setMood call with NORMAL or CALM no mood-reset timer is    *)
(* pending and the mood is the one set, until the next setMood call.       *)

C28_StickyMoodStays ==
    lastSet \in {"NORMAL", "CALM"} => timeouts = <<>> /\ currentMood = lastSet

C28_Witness ==
    /\ lastSet = "CALM"
    /\ currentMood = "CALM"
    /\ origin.mood = "NORMAL"
    /\ setCalls = 2
    /\ Len(notifications) = 2
    /\ now >= StartTime + MaxMoodTicks + MoodTimeout

---------------------------------------------------------------------------
(* C29. When an evaluation with the feature on has returned, sulking or    *)
(* not, the count map in memory and the saved one have no entry whose date *)
(* began more than NGAMBEK_DURATION_DAYS + 1 days before now, and unless   *)
(* the evaluation left sulk mode every other entry is there with the value *)
(* it had when the evaluation began.                                       *)

TooOld(d, t) == t - d * DayUnits > (NGAMBEK_DURATION_DAYS + 1) * DayUnits
LeftSulk == Before.isNgambekMode /\ ~globalState.isNgambekMode

C29_CountsWindow ==
    (Returned /\ Enabled)
    => /\ SavedCountsNow = <<heap[globalState.dailyChatCounts]>>
       /\ \A d \in Days :
             IF TooOld(d, now) \/ LeftSulk
             THEN heap[globalState.dailyChatCounts][d] = 0
             ELSE heap[globalState.dailyChatCounts][d] = Before.dailyChatCounts[d]

C29_Witness ==
    /\ Returned /\ Enabled /\ ~LeftSulk
    /\ \E d \in Days : TooOld(d, now) /\ Before.dailyChatCounts[d] > 0
    /\ \E d \in Days : heap[globalState.dailyChatCounts][d] > 0
    /\ SavedCountsNow = <<heap[globalState.dailyChatCounts]>>

---------------------------------------------------------------------------
(* C30. With the scheduled jobs and the sulk feature on, a user who has    *)
(* written before and then stays away: once the jobs are set up, sulk mode *)
(* is entered at some time.                                                *)

C30_SulkEntered ==
    (/\ booted
     /\ isFeatureEnabled(featureFlags, "ENABLE_CRON_JOBS")
     /\ featureFlags["ENABLE_NGAMBEK_MODE"]
     /\ globalState.lastInteractionTimestamp # NoTime)
    ~> globalState.isNgambekMode

---------------------------------------------------------------------------
(* C31. When the listener has produced the reply to a message, it has made *)
(* exactly one updateInteractionStatus call for that message, and the call *)
(* had returned before the reply.                                          *)

C31_RecordedOnce ==
    lreply # NoMessage => lreply.recorded = 1

---------------------------------------------------------------------------
(* C32. A reply that generateAIResponse holds for its caller has been      *)
(* appended to the history: the history, empty at the start, holds a       *)
(* message whenever a reply of any kind is about to be returned.           *)

C32_RepliesStored ==
    \A r \in Slots :
        rpc[r] = "replied" => historyCount > 0

---------------------------------------------------------------------------
(* C33. Trimming has hysteresis. The insert of addMessage removes nothing. *)
(* The flush of addMessage leaves the history as it is while the count is  *)
(* at most 120; above 120 it removes documents that are no newer than any  *)
(* document it keeps, and keeps exactly 100. Whenever no addMessage is in  *)
(* flight the history holds at most 120 documents.                         *)

C33_Hysteresis ==
    /\ [](apc = "idle" => BagCardinality(history) <= FLUSH_THRESHOLD)
    /\ [][/\ (apc = "idle" /\ apc' = "flush") => history \sqsubseteq history'
          /\ (apc = "flush" /\ apc' = "idle"
                /\ BagCardinality(history) <= FLUSH_THRESHOLD)
               => history' = history
          /\ (apc = "flush" /\ apc' = "idle"
                /\ BagCardinality(history) > FLUSH_THRESHOLD)
               => /\ BagCardinality(history') = MAX_HISTORY_LENGTH
                  /\ history' \sqsubseteq history
                  /\ \A i \in DOMAIN (history (-) history'),
                        j \in DOMAIN history' : i[1] <= j[1]]_vars

C33_Witness ==
    /\ apc = "idle"
    /\ lastOp = "add"
    /\ BagCardinality(history) = MAX_HISTORY_LENGTH
    /\ CopiesIn(<<MidStamp, 0, StoredText>>, history) = MAX_HISTORY_LENGTH - 2

---------------------------------------------------------------------------
(* C34. Every document of the history has a string content with a          *)
(* character that is not white space. An addMessage call with no message,  *)
(* with a content that is not a string, or with a content of white space   *)
(* only returns and leaves the history and the read cache as they were.    *)

NothingToStore(message) ==
    \/ message.content # "string"
    \/ \A k \in DOMAIN message.chars : message.chars[k] = " "

C34_ContentKept ==
    /\ [](\A d \in DOMAIN history : \E k \in DOMAIN d[3] : d[3][k] # " ")
    /\ [][\A message \in MessageArguments, ts \in MessageStamps(nowMs) :
             (NothingToStore(message) /\ AddMessageOf(message, ts))
                => (apc' = "idle" /\ UNCHANGED <<history, queryCache>>)]_vars

C34_Witness ==
    /\ lastOp = "turned away"
    /\ history # EmptyBag
    /\ queryCache.data # NoData

---------------------------------------------------------------------------
(* C35. When cleanupOldLTMs ends without an error, the collection is the   *)
(* one it began with less every entry whose age is above the retention of  *)
(* its priority tier (60 days at priority 100, 14 days at 91 to 99, 5 days *)
(* at 90 or lower). Every priority 0..100 is in exactly one clause of the  *)
(* criteria, and a higher priority never has fewer days than a lower one.  *)

RetentionDays(priority) ==
    IF priority = 100 THEN 60 ELSE IF priority >= 91 THEN 14 ELSE 5

AgedOut(doc, t) == t - doc[2] > RetentionDays(doc[1]) * SecondsPerDay

CleanupEnded == cpc = "idle" /\ cleanupLog \in {"finished", "nothing to clean"}

(* every priority 0..100 is in one clause, and the days do not go down as  *)
(* the priority goes up                                                    *)
TiersCoverInOrder ==
    /\ \A p \in 0..100 : Cardinality({c \in 1..3 : InClause(c, p)}) = 1
    /\ \A p, q \in 0..100 :
          p <= q => \A c, e \in 1..3 :
                       (InClause(c, p) /\ InClause(e, q))
                          => ClauseDays(c) <= ClauseDays(e)

C35_ExpiredRemoved ==
    /\ CleanupEnded =>
          ltm = Restrict(cbefore, {doc \in DOMAIN cbefore : ~AgedOut(doc, cnow)})
    /\ TiersCoverInOrder

C35_Witness ==
    /\ CleanupEnded
    /\ deletedCount > 0
    /\ ltm # EmptyBag
    /\ \E doc \in DOMAIN ltm : cnow - doc[2] = RetentionDays(doc[1]) * SecondsPerDay

---------------------------------------------------------------------------
(* C36. A turn of the cleanup loop removes at least one and at most 50     *)
(* entries and nothing else changes the collection during the call; a call *)
(* that has begun ends; and when it has ended without an error, no entry   *)
(* of the collection is above the retention of its tier.                   *)

C36_ChunksUntilDone ==
    /\ [][cpc = "loop" /\ ltm' # ltm
            => /\ ltm' \sqsubseteq ltm
               /\ BagCardinality(ltm (-) ltm') \in 1..LTM_CLEANUP_BATCH_SIZE
               /\ deletedCount' = deletedCount + BagCardinality(ltm (-) ltm')]_vars
    /\ [](CleanupEnded => \A doc \in DOMAIN ltm : ~AgedOut(doc, cnow))
    /\ (cpc = "loop") ~> (cpc = "idle")

C36_Witness ==
    /\ CleanupEnded
    /\ deletedCount > 2 * LTM_CLEANUP_BATCH_SIZE
    /\ ltm # EmptyBag

---------------------------------------------------------------------------
(* C37. When the handler of a scheduled job has ended after a failure of   *)
(* the job's work, the failure was logged and reported to the error        *)
(* tracker, and nothing was thrown out of the handler.                     *)

C37_FailureContained ==
    (jpc = "idle" /\ jrun.failed)
        => (jrun.logged = "error" /\ jrun.reported /\ ~jrun.uncaught)

---------------------------------------------------------------------------
(* C38. Two requests with the same cache key get the same personality      *)
(* section in their system prompts: the flags that select it are all in    *)
(* the key, the romance flag among them.                                   *)

C38_KeySelectsSection ==
    (keys # <<>> /\ keys[1] = keys[2])
        => PersonalitySection(contexts[1],
              isFeatureEnabled(featureFlags, "ENABLE_ROMANCE_MODE") /\ romance[1])
           = PersonalitySection(contexts[2],
              isFeatureEnabled(featureFlags, "ENABLE_ROMANCE_MODE") /\ romance[2])

---------------------------------------------------------------------------
(* C39. The notifications of one checkNgambekStatus call never hold both   *)
(* the sulk notification and the exit notification, whatever recordings    *)
(* run between the steps of the call.                                      *)

Sent(text) == \E i \in DOMAIN notifications : notifications[i] = text

---------------------------------------------------------------------------
(* C40. Every updateInteractionStatus call that has begun returns, also    *)
(* when a persistence call inside the critical section throws; a call that *)
(* waits for the lock gets it; and when no call is in flight the lock is   *)
(* free.                                                                   *)

C40_CallsComplete ==
    /\ \A u \in Callers : (upc[u] # "idle") ~> (upc[u] = "idle")
    /\ \A u \in Callers : (upc[u] = "waiting") ~> (interactionMutex.holder = u)
    /\ []((\A u \in Callers : upc[u] = "idle")
             => interactionMutex = [holder |-> NoCaller, queue |-> <<>>])

C40_Witness ==
    \E u, v \in Callers :
        /\ upc[u] = "caught"
        /\ upc[v] = "waiting"
        /\ interactionMutex.holder = u

====
